---- MODULE Spec2Model ----
(***************************************************************************)
(* FlowLogic RouteAI: a model of the routing engine, live re-routing, the  *)
(* rate limiter, the API key manager, the usage guard and the Stripe       *)
(* webhook endpoint.  Each subsystem has its own specification over the    *)
(* shared variables; a specification leaves the variables its actions do   *)
(* not write at their initial values.                                      *)
(***************************************************************************)
EXTENDS Integers, Sequences, FiniteSets, TLC

VARIABLES
    pc,             \* route_trucks: "idle" | "routing" | "done"
    req,            \* route_trucks arguments: [stops, trucks]
    queue,          \* trucks still to process, largest max_pallets first
    truck_routes,   \* route_trucks: the list of (truck_id -> TruckRoute) built so far
    assigned_stops  \* route_trucks: stop ids claimed so far

VARIABLES
    now,            \* time.time(), in seconds
    fresh,          \* the clock has advanced since the last call read it
    backend,        \* RateLimiter.redis_client: "redis", or "memory" when it is None
    rl_store,       \* timestamps held for the identifier (sorted set / _memory_store list)
    rl_last,        \* (allowed, rate_info) of the latest check_rate_limit call
    ep_start,       \* clock value of the first call made with an empty window
    ep_calls        \* calls made inside the window opened at ep_start (0: not tracked)

VARIABLES
    users,          \* User rows: user id -> [is_active]
    api_keys,       \* APIKey rows in creation order; a row's index is its id
    today,          \* datetime.now(timezone.utc), in days
    key_last,       \* the latest API key operation and what it returned
    key_prev,       \* the operation before it, when that was a create (else NoOp)
    revoked,        \* secrets of the keys revoke_api_key has deactivated
    deleted_keys    \* secrets of the keys that DELETE /account has deactivated

VARIABLES
    subscription,     \* the user's Subscription row <<[tier, status, monthly_route_limit]>>,
                      \* <<>> if none
    routes_generated, \* UsageRecord.routes_generated of the current month
    api_calls_made,   \* UsageRecord.api_calls_made of the current month
    route_logs,       \* number of RouteLog rows of the user
    usage_backend,    \* UsageLimiter.redis_client: "redis", or "memory" when it is None
    usage_cache,      \* the cached usage:{user_id} entry, <<>> if none
    guard_last,       \* outcome of the latest check_usage_limits call
    last_log          \* the RouteLog row the latest record_route_usage call added,
                      \* <<>> before the first call

VARIABLES
    webhook_logs,   \* WebhookLog rows in insertion order
    deliveries,     \* event id -> number of verified deliveries received so far
    wh_request,     \* the latest request to POST /webhooks/stripe
    wh_response     \* and the response it got

VARIABLES
    rr_pc,            \* live_rerouting: "idle" | "routing" | "answered"
    rr_request,       \* ReRoutingRequest: [original_routes, stops, trucks, changes]
    modified_stops,   \* _apply_routing_changes: the stops after the changes
    affected_trucks,  \* _apply_routing_changes: truck ids marked affected
    change_log,       \* _apply_routing_changes: the log lines
    cancel_effect,    \* stops, marks and log as the cancel_stop block left them
    final_routes,     \* live_rerouting: the merged routes
    rr_response       \* the answer: [status_code, routes], status 0 while there is none

VARIABLES
    fault_scope,    \* the limiter the behaviour exercises under faults: "rate" | "usage" | "none"
    fc_last         \* the latest limit check made under fault injection and its answer

VARIABLES
    last_admitted,   \* <<clock value>> of the latest admitted check_rate_limit call, <<>> if none
    rejected_run,    \* consecutive rejected calls up to the latest call
    rejected_before  \* rejected_run as the latest call found it

VARIABLES
    connected_clients,  \* GPSTrackingService.connected_clients
    gps_positions,      \* number of GPSPosition rows stored
    gps_last            \* the latest ingest_gps_data call: what each send did, who got
                        \* the update, the live set it left and how the call ended

VARIABLES
    auth_last       \* the latest authenticate_with_api_key call: the key's allow-list,
                    \* the caller's addresses and how the call ended

VARIABLES
    opt_last        \* the latest get_optimized_route call: the stops given, what the
                    \* external API did, and the result (<<>> for None)

VARIABLES
    fleet_last      \* the latest generate_default_fleet call: the stops (their number
                    \* and the special constraints among them), the parsed constraints
                    \* and the truck types of the fleet returned

VARIABLES
    sync_last       \* the latest sync_routes call of a TMS connector: the platform,
                    \* the routes handed in, the payload posted and the result

VARIABLES
    rec_last        \* the latest upgrade-recommendation request: the subscription's
                    \* tier, the month's usage and the recommendations returned

VARIABLES
    cr_clock,       \* time.time() as the worker processes see it
    cr_pc,          \* worker -> position in its check_rate_limit call
    cr_now,         \* worker -> the clock value its call read
    cr_zset,        \* the Redis sorted set rate_limit:{identifier}: its members
    cr_memory,      \* worker -> its own _memory_store[identifier] list
    cr_calls,       \* check_rate_limit calls begun so far
    cr_admitted     \* clock values of the calls answered allowed, in answer order

VARIABLES
    ck_pc,          \* worker -> position in its create_api_key request
    ck_existing,    \* worker -> existing_keys as its request counted them
    ck_active,      \* active APIKey rows of the user in the database
    ck_answer       \* worker -> the answer to its latest request

VARIABLES
    sub_row,        \* the user's Subscription row, <<>> before the user is provisioned
    sub_event       \* the latest provisioning, webhook event or cancel call

VARIABLES
    bc_clients,     \* GPSTrackingService.connected_clients while a broadcast runs
    bc_pc,          \* _broadcast_position_update: "idle" | "awaiting" (inside a send)
    bc_used,        \* size of connected_clients when the for loop took its iterator
    bc_current,     \* the client whose send is awaited
    bc_todo,        \* clients the iterator has not visited yet, in iteration order
    bc_closed,      \* disconnected_clients of the running broadcast
    bc_start,       \* connected_clients when the broadcast began
    bc_churn,       \* clients that connected or disconnected during the broadcast
    bc_delivered,   \* clients whose send of this update returned
    bc_result       \* how the latest ingest_gps_data call ended: "none" | "returned" | "raised"

routeVars == <<pc, req, queue, truck_routes, assigned_stops>>

rateVars == <<now, fresh, backend, rl_store, rl_last, ep_start, ep_calls>>

keyVars == <<users, api_keys, today, key_last, key_prev, revoked, deleted_keys>>

usageVars == <<subscription, routes_generated, api_calls_made, route_logs,
               usage_backend, usage_cache, guard_last, last_log>>

hookVars == <<webhook_logs, deliveries, wh_request, wh_response>>

rerouteVars == <<rr_pc, rr_request, modified_stops, affected_trucks, change_log,
                 cancel_effect, final_routes, rr_response>>

optVars == <<opt_last>>

fleetVars == <<fleet_last>>

syncVars == <<sync_last>>

recVars == <<rec_last>>

concVars == <<cr_clock, cr_pc, cr_now, cr_zset, cr_memory, cr_calls, cr_admitted>>

raceVars == <<ck_pc, ck_existing, ck_active, ck_answer>>

tierVars == <<sub_row, sub_event>>

bcVars == <<bc_clients, bc_pc, bc_used, bc_current, bc_todo, bc_closed,
           bc_start, bc_churn, bc_delivered, bc_result>>

faultVars == <<fault_scope, fc_last>>

\* the variables of the subsystems that no other subsystem reads or writes
windowVars == <<last_admitted, rejected_run, rejected_before>>

gpsVars == <<connected_clients, gps_positions, gps_last>>

authVars == <<auth_last>>

lateVars == <<optVars, fleetVars, syncVars, recVars, concVars, raceVars, tierVars,
              bcVars>>

notOpt == <<routeVars, rateVars, keyVars, usageVars, hookVars, rerouteVars, faultVars,
            windowVars, gpsVars, authVars, fleetVars, syncVars, recVars, concVars,
            raceVars, tierVars, bcVars>>

notFleet == <<routeVars, rateVars, keyVars, usageVars, hookVars, rerouteVars,
              faultVars, windowVars, gpsVars, authVars, optVars, syncVars, recVars,
              concVars, raceVars, tierVars, bcVars>>

notSync == <<routeVars, rateVars, keyVars, usageVars, hookVars, rerouteVars, faultVars,
             windowVars, gpsVars, authVars, optVars, fleetVars, recVars, concVars,
             raceVars, tierVars, bcVars>>

notRec == <<routeVars, rateVars, keyVars, usageVars, hookVars, rerouteVars, faultVars,
            windowVars, gpsVars, authVars, optVars, fleetVars, syncVars, concVars,
            raceVars, tierVars, bcVars>>

notConc == <<routeVars, rateVars, keyVars, usageVars, hookVars, rerouteVars, faultVars,
             windowVars, gpsVars, authVars, optVars, fleetVars, syncVars, recVars,
             raceVars, tierVars, bcVars>>

notRace == <<routeVars, rateVars, keyVars, usageVars, hookVars, rerouteVars, faultVars,
             windowVars, gpsVars, authVars, optVars, fleetVars, syncVars, recVars,
             concVars, tierVars, bcVars>>

notTier == <<routeVars, rateVars, keyVars, usageVars, hookVars, rerouteVars, faultVars,
             windowVars, gpsVars, authVars, optVars, fleetVars, syncVars, recVars,
             concVars, raceVars, bcVars>>

notBc == <<routeVars, rateVars, keyVars, usageVars, hookVars, rerouteVars, faultVars,
           windowVars, gpsVars, authVars, optVars, fleetVars, syncVars, recVars,
           concVars, raceVars, tierVars>>

auxVars == <<faultVars, windowVars, gpsVars, authVars, lateVars>>

vars == <<routeVars, rateVars, keyVars, usageVars, hookVars, rerouteVars, auxVars>>

\* what the actions of one subsystem leave alone
notRoute == <<rateVars, keyVars, usageVars, hookVars, rerouteVars, auxVars>>

notRate == <<routeVars, keyVars, usageVars, hookVars, rerouteVars, auxVars>>

notKeys == <<routeVars, rateVars, usageVars, hookVars, rerouteVars, auxVars>>

notUsage == <<routeVars, rateVars, keyVars, hookVars, rerouteVars, auxVars>>

\* live re-routing drives the routing engine
notReroute == <<rateVars, keyVars, usageVars, hookVars, auxVars>>

\* the webhook handlers write the Subscription row
notHook == <<routeVars, rateVars, keyVars, routes_generated, api_calls_made,
             route_logs, usage_backend, usage_cache, guard_last, last_log, rerouteVars,
             auxVars>>

(***************************************************************************)
(* Helpers                                                                 *)
(***************************************************************************)
Abs(x) == IF x < 0 THEN -x ELSE x

Min2(a, b) == IF a < b THEN a ELSE b

Max2(a, b) == IF a > b THEN a ELSE b

Range(s) == {s[i] : i \in 1..Len(s)}

RECURSIVE SumSeq(_)
SumSeq(s) == IF s = <<>> THEN 0 ELSE Head(s) + SumSeq(Tail(s))

Perms(n) == {f \in [1..n -> 1..n] : \A i, j \in 1..n : f[i] = f[j] => i = j}

None == "none"

\* an optional value that is not a string: <<>> for None, <<v>> for v
Absent == <<>>

(***************************************************************************)
(* Bounds of the model and the values requests are drawn from              *)
(***************************************************************************)
MaxPallets == 2

MaxCapacity == 3

MileUnit == 15

StopIds == {1, 2}

TruckIds == <<"T1", "T2">>

SpecialConstraints == {"None", "Fragile", "Refrigerated", "Frozen", "Hazmat", "Heavy"}

TruckTypes == {"Dry", "Refrigerated", "Frozen", "Hazmat", "Flatbed"}

\* time-of-day values are minutes since midnight
TimeWindows == {<<480, 500>>, <<600, 720>>, <<480, 1020>>}

Shifts == {<<480, 1020>>}

\* a location the geocoder could not resolve has no coordinates
NoCoord == -1

DepotPosition == 0

\* models.py defaults
DefaultServiceTime == 15

DefaultSpeed == 45

\* distance_matrix.get(..., 50)
DefaultMiles == 50

\* the waiting allowance and the day cap of the solver's time dimension
SolverSlack == 30

DayMinutes == 1440

\* The stops and trucks of a request.  To keep the product of inputs small
\* the second stop and the second truck take fewer kinds than the first, and
\* only the first stop's address can fail to geocode.
StopRecords(id) ==
    [stop_id : {id}, pallets : 1..MaxPallets,
     special_constraint : IF id = 1 THEN SpecialConstraints ELSE {"None", "Frozen", "Hazmat"},
     window : TimeWindows,
     pos : IF id = 1 THEN {1, NoCoord} ELSE {id},
     service_time_minutes : {DefaultServiceTime}]

TruckRecords(id) ==
    [truck_id : {id}, max_pallets : (MaxCapacity - 1)..MaxCapacity,
     truck_type : IF id = "T1" THEN TruckTypes ELSE {"Dry", "Frozen", "Hazmat"},
     shift : Shifts, depot_pos : {DepotPosition}, avg_speed_mph : {DefaultSpeed}]

(***************************************************************************)
(* Routing engine (services/routing_engine.py)                             *)
(***************************************************************************)
\* a compatibility table whose Dry row also lists Frozen and Hazmat goods
compatibility_rules_loose(truck_type) ==
    CASE truck_type = "Dry"          -> {"None", "Fragile", "Heavy", "Frozen", "Hazmat"}
      [] truck_type = "Refrigerated" -> {"None", "Refrigerated", "Fragile"}
      [] truck_type = "Frozen"       -> {"None", "Frozen", "Refrigerated"}
      [] truck_type = "Hazmat"       -> {"Hazmat"}
      [] truck_type = "Flatbed"      -> {"Heavy", "None"}
      [] OTHER                       -> {}

compatibility_rules(truck_type) ==
    CASE truck_type = "Dry"          -> {"None", "Fragile", "Heavy"}
      [] truck_type = "Refrigerated" -> {"None", "Refrigerated", "Fragile"}
      [] truck_type = "Frozen"       -> {"None", "Frozen", "Refrigerated"}
      [] truck_type = "Hazmat"       -> {"Hazmat"}
      [] truck_type = "Flatbed"      -> {"Heavy", "None"}
      [] OTHER                       -> {}

check_time_compatibility(truck, stop) ==
    ~(truck.shift[2] < stop.window[1] \/ truck.shift[1] > stop.window[2])

IsCompatible(truck, stop) ==
    /\ stop.special_constraint \in compatibility_rules(truck.truck_type)
    /\ stop.pallets <= truck.max_pallets
    /\ check_time_compatibility(truck, stop)

get_compatible_stops(truck, stops) ==
    SelectSeq(stops, LAMBDA s : IsCompatible(truck, s))

\* GeocodingService.create_distance_matrix holds the geocoded locations only;
\* every lookup of a pair it lacks yields the default of 50 miles.
Distance(p, q) ==
    IF p = NoCoord \/ q = NoCoord THEN DefaultMiles ELSE Abs(p - q) * MileUnit

\* time(hours, minutes) built from minutes since midnight, hours clamped to 0..23
ClampTime(mins) == Max2(0, Min2(23, mins \div 60)) * 60 + (mins % 60)

RouteStop(stop, arrival, dist) ==
    [stop_id |-> stop.stop_id, arrival_time |-> arrival,
     distance_from_previous |-> dist, pallets |-> stop.pallets]

\* round(total_pallets / max_pallets * 100, 1), in tenths of a percent
Utilization(total_pallets, max_pallets) ==
    (total_pallets * 2000 + max_pallets) \div (2 * max_pallets)

TruckRoute(truck, route_stops, last_pos) ==
    [truck_id |-> truck.truck_id,
     stops |-> route_stops,
     total_miles |->
        SumSeq([i \in 1..Len(route_stops) |-> route_stops[i].distance_from_previous])
        + (IF route_stops = <<>> THEN 0 ELSE Distance(last_pos, truck.depot_pos)),
     utilization_percent |->
        Utilization(SumSeq([i \in 1..Len(route_stops) |-> route_stops[i].pallets]),
                    truck.max_pallets)]

create_empty_route(truck) ==
    [truck_id |-> truck.truck_id, stops |-> <<>>, total_miles |-> 0,
     utilization_percent |-> 0]

(* ---- _greedy_route: nearest feasible next stop -------------------------- *)
\* One pass of the inner for-loop: the first stop of `remaining`, in list
\* order, at the strictly smallest distance among those that fit the
\* remaining capacity and whose window end is not before the (fractional)
\* arrival current_time + distance * 60 / avg_speed_mph.
\* the greedy candidate test without its capacity check
GreedyFeasible_NoCapacity(truck, stop, cur_pos, current_time, total_pallets) ==
    current_time * truck.avg_speed_mph + Distance(cur_pos, stop.pos) * 60
       <= stop.window[2] * truck.avg_speed_mph

GreedyFeasible(truck, stop, cur_pos, current_time, total_pallets) ==
    /\ total_pallets + stop.pallets <= truck.max_pallets
    /\ current_time * truck.avg_speed_mph + Distance(cur_pos, stop.pos) * 60
          <= stop.window[2] * truck.avg_speed_mph

GreedyBest(truck, remaining, cur_pos, current_time, total_pallets) ==
    LET ok == {i \in 1..Len(remaining) :
                 GreedyFeasible(truck, remaining[i], cur_pos, current_time, total_pallets)}
    IN  IF ok = {} THEN 0
        ELSE CHOOSE i \in ok :
               \A j \in ok :
                  \/ Distance(cur_pos, remaining[i].pos) < Distance(cur_pos, remaining[j].pos)
                  \/ /\ Distance(cur_pos, remaining[i].pos) = Distance(cur_pos, remaining[j].pos)
                     /\ i <= j

RemoveAt(s, i) == [k \in 1..(Len(s) - 1) |-> IF k < i THEN s[k] ELSE s[k + 1]]

RECURSIVE GreedyLoop(_, _, _, _, _, _)
GreedyLoop(truck, remaining, cur_pos, current_time, total_pallets, route_stops) ==
    IF remaining = <<>> \/ ~(total_pallets < truck.max_pallets)
    THEN TruckRoute(truck, route_stops, cur_pos)
    ELSE LET b == GreedyBest(truck, remaining, cur_pos, current_time, total_pallets)
         IN  IF b = 0
             THEN TruckRoute(truck, route_stops, cur_pos)
             ELSE LET best_stop    == remaining[b]
                      best_dist    == Distance(cur_pos, best_stop.pos)
                      arrival_mins == current_time + (best_dist * 60) \div truck.avg_speed_mph
                  IN  GreedyLoop(truck, RemoveAt(remaining, b), best_stop.pos,
                                 arrival_mins + best_stop.service_time_minutes,
                                 total_pallets + best_stop.pallets,
                                 Append(route_stops,
                                        RouteStop(best_stop, arrival_mins, best_dist)))

greedy_route(truck, stops) ==
    GreedyLoop(truck, stops, truck.depot_pos, truck.shift[1], 0, <<>>)

(* ---- _optimize_truck_route: the OR-Tools model -------------------------- *)
\* time_callback: int(matrix[from][to] * (60 / avg_speed_mph) / 100) plus the
\* service time of the destination stop (0 for the depot)
SolverTransit(truck, from_pos, to_pos, to_service) ==
    (Distance(from_pos, to_pos) * 60) \div truck.avg_speed_mph + to_service

\* The time dimension along a visiting order: the set of cumul values a node
\* can take is an interval; [lo, hi] of the depot start is [0, 1440], a stop
\* narrows it to its window, each arc adds its transit and a slack of 0..30.
RECURSIVE TimeFeasible(_, _, _, _, _, _, _)
TimeFeasible(truck, stops, order, k, from_pos, lo, hi) ==
    IF k > Len(order)
    THEN LET t == SolverTransit(truck, from_pos, truck.depot_pos, 0)
         IN  lo + t <= DayMinutes
    ELSE LET s   == stops[order[k]]
             t   == SolverTransit(truck, from_pos, s.pos, s.service_time_minutes)
             nlo == Max2(lo + t, s.window[1])
             nhi == Min2(hi + t + SolverSlack, s.window[2])
         IN  /\ nlo <= nhi
             /\ TimeFeasible(truck, stops, order, k + 1, s.pos, nlo, nhi)

\* No disjunction is added to the routing model, so a solution visits every
\* stop it was given; the capacity dimension caps the load at max_pallets.
SolverFeasible(truck, stops, order) ==
    /\ SumSeq([i \in 1..Len(stops) |-> stops[i].pallets]) <= truck.max_pallets
    /\ TimeFeasible(truck, stops, order, 1, truck.depot_pos, 0, DayMinutes)

SolverSolutions(truck, stops) ==
    {order \in Perms(Len(stops)) : SolverFeasible(truck, stops, order)}

(* ---- _extract_route_from_solution --------------------------------------- *)
\* current_time starts at shift start and is a float; cur_n is current_time
\* times avg_speed_mph, so that the walk stays in integers.  The arrival at
\* a stop is int(current_time), made a time of day by ClampTime.
RECURSIVE ExtractWalk(_, _, _, _, _, _, _)
ExtractWalk(truck, stops, order, k, prev_pos, cur_n, route_stops) ==
    IF k > Len(order)
    THEN TruckRoute(truck, route_stops, prev_pos)
    ELSE LET s     == stops[order[k]]
             dist  == Distance(prev_pos, s.pos)
             svc   == IF k = 1 THEN 0 ELSE stops[order[k - 1]].service_time_minutes
             new_n == cur_n + dist * 60 + svc * truck.avg_speed_mph
             arr   == ClampTime(new_n \div truck.avg_speed_mph)
         IN  ExtractWalk(truck, stops, order, k + 1, s.pos, new_n,
                         Append(route_stops, RouteStop(s, arr, dist)))

extract_route_from_solution(truck, stops, order) ==
    ExtractWalk(truck, stops, order, 1, truck.depot_pos,
                truck.shift[1] * truck.avg_speed_mph, <<>>)

\* The routes _optimize_truck_route can return for a non-empty stop list: the
\* extraction of any solution the solver can report, or, when the solver
\* reports none (no feasible order, or none found by the cheapest-arc
\* heuristic within the 5 s limit), the greedy route.
optimize_truck_route(truck, stops) ==
    {extract_route_from_solution(truck, stops, o) : o \in SolverSolutions(truck, stops)}
    \cup {greedy_route(truck, stops)}

(* ---- route_trucks ------------------------------------------------------- *)
\* sorted(trucks, key=max_pallets, reverse=True): stable, largest first
RECURSIVE SortTrucks(_)
SortTrucks(trucks) ==
    IF trucks = <<>> THEN <<>>
    ELSE LET m == CHOOSE i \in 1..Len(trucks) :
                    \A j \in 1..Len(trucks) :
                       \/ trucks[i].max_pallets > trucks[j].max_pallets
                       \/ trucks[i].max_pallets = trucks[j].max_pallets /\ i <= j
         IN  <<trucks[m]>> \o SortTrucks(RemoveAt(trucks, m))

\* the compatible stops, claimed or not
AvailableStops_all(truck, stops, assigned) ==
    get_compatible_stops(truck, stops)

\* available_stops: the truck's compatible stops not in assigned_stops
AvailableStops(truck, stops, assigned) ==
    SelectSeq(get_compatible_stops(truck, stops), LAMBDA s : s.stop_id \notin assigned)

RouteStopIds(route) == {route.stops[i].stop_id : i \in 1..Len(route.stops)}

Submit ==
    /\ pc = "idle"
    /\ \E s1 \in StopRecords(1), s2 \in StopRecords(2),
          t1 \in TruckRecords(TruckIds[1]), t2 \in TruckRecords(TruckIds[2]) :
          /\ req' = [stops |-> <<s1, s2>>, trucks |-> <<t1, t2>>]
          /\ queue' = SortTrucks(<<t1, t2>>)
    /\ pc' = "routing"
    /\ truck_routes' = <<>>
    /\ assigned_stops' = {}
    /\ UNCHANGED notRoute

\* one iteration of the loop over the sorted trucks; after the last truck
\* route_trucks returns truck_routes
RouteNextTruck ==
    /\ pc = "routing"
    /\ queue # <<>>
    /\ LET truck == Head(queue)
           available_stops == AvailableStops(truck, req.stops, assigned_stops)
       IN  \E route \in (IF available_stops = <<>> THEN {create_empty_route(truck)}
                         ELSE optimize_truck_route(truck, available_stops)) :
              /\ truck_routes' = Append(truck_routes, route)
              /\ assigned_stops' = assigned_stops \cup RouteStopIds(route)
    /\ queue' = Tail(queue)
    /\ pc' = IF Tail(queue) = <<>> THEN "done" ELSE "routing"
    /\ UNCHANGED <<req, notRoute>>

RouteIdle ==
    /\ pc = "idle"
    /\ req = [stops |-> <<>>, trucks |-> <<>>]
    /\ queue = <<>>
    /\ truck_routes = <<>>
    /\ assigned_stops = {}

(***************************************************************************)
(* Rate limiter (saas/middleware/rate_limiting.py)                         *)
(***************************************************************************)
\* bounds: the clock moves in steps of ClockStep seconds up to MaxClock
ClockStep == 5

MaxClock == 70

\* RateLimiter.window_duration
WindowDuration == 60

default_limits(tier) ==
    CASE tier = "free"         -> 10
      [] tier = "starter"      -> 60
      [] tier = "professional" -> 300
      [] tier = "enterprise"   -> 1000
      [] tier = "admin"        -> 10000
      [] OTHER                 -> 10

\* override is None (<<>>) or a number (<<n>>); a falsy override (0) is
\* ignored like None
get_rate_limit(tier, override) ==
    IF override # Absent /\ override[1] # 0 THEN override[1] ELSE default_limits(tier)

\* the Redis path with the admission test current_count <= limit
redis_rate_limit_le(store, t, limit, window) ==
    LET kept          == {x \in store : ~(x <= t - window)}
        current_count == Cardinality(kept)
        allowed       == current_count <= limit
    IN  [store     |-> IF allowed THEN kept \cup {t} ELSE (kept \cup {t}) \ {t},
         allowed   |-> allowed,
         remaining |-> Max2(0, limit - current_count - 1)]

\* _redis_rate_limit: ZREMRANGEBYSCORE key 0 now-window; ZCARD; ZADD key
\* {str(now): now}; EXPIRE; and ZREM key str(now) when the call is rejected.
\* The sorted set is a set of members, one per distinct clock value.  (The
\* key's expiry of window+1 seconds drops only entries the next call would
\* remove anyway.)
redis_rate_limit(store, t, limit, window) ==
    LET kept          == {x \in store : ~(x <= t - window)}
        current_count == Cardinality(kept)
        allowed       == current_count < limit
    IN  [store     |-> IF allowed THEN kept \cup {t} ELSE (kept \cup {t}) \ {t},
         allowed   |-> allowed,
         remaining |-> Max2(0, limit - current_count - 1)]

\* the list keeps the time of a rejected request too
memory_rate_limit_keeps(store, t, limit, window) ==
    LET kept          == {x \in store : x > t - window}
        current_count == Cardinality(kept)
        allowed       == current_count < limit
    IN  [store     |-> kept \cup {t},
         allowed   |-> allowed,
         remaining |-> IF allowed THEN limit - current_count - 1 ELSE 0]

\* _memory_rate_limit: the list of request times of the identifier
memory_rate_limit(store, t, limit, window) ==
    LET kept          == {x \in store : x > t - window}
        current_count == Cardinality(kept)
        allowed       == current_count < limit
    IN  [store     |-> IF allowed THEN kept \cup {t} ELSE kept,
         allowed   |-> allowed,
         remaining |-> IF allowed THEN limit - current_count - 1 ELSE 0]

check_rate_limit(store, t, tier, override) ==
    LET limit == get_rate_limit(tier, override)
    IN  IF backend = "memory"
        THEN memory_rate_limit(store, t, limit, WindowDuration)
        ELSE redis_rate_limit(store, t, limit, WindowDuration)

InWindow(store, t) == {x \in store : x > t - WindowDuration}

\* one check_rate_limit call for the identifier, on the free tier, reading a
\* clock value later than the one the call before it read
CheckRateLimit ==
    /\ fresh
    /\ LET r == check_rate_limit(rl_store, now, "free", Absent)
           opens == InWindow(rl_store, now) = {}
       IN  /\ rl_store' = r.store
           /\ rl_last' = [allowed |-> r.allowed, remaining |-> r.remaining]
           /\ ep_start' = IF opens THEN now ELSE ep_start
           /\ ep_calls' = IF opens THEN 1
                          ELSE IF ep_calls >= 1 /\ now < ep_start + WindowDuration
                               THEN Min2(ep_calls + 1, default_limits("free") + 2)
                               ELSE 0
    /\ fresh' = FALSE
    /\ UNCHANGED <<now, backend, notRate>>

Tick ==
    /\ now + ClockStep <= MaxClock
    /\ now' = now + ClockStep
    /\ fresh' = TRUE
    /\ UNCHANGED <<backend, rl_store, rl_last, ep_start, ep_calls, notRate>>

\* APIKey.rate_limit_override of the key the calls are made with
OverrideLimit == 2

\* one check_rate_limit call for an identifier whose key overrides the limit
CheckRateLimitOverride ==
    /\ fresh
    /\ LET r == check_rate_limit(rl_store, now, "free", <<OverrideLimit>>)
       IN  /\ rl_store' = r.store
           /\ rl_last' = [allowed |-> r.allowed, remaining |-> r.remaining]
           /\ last_admitted' = IF r.allowed THEN <<now>> ELSE last_admitted
           /\ rejected_run' = IF r.allowed THEN 0 ELSE rejected_run + 1
           /\ rejected_before' = rejected_run
    /\ fresh' = FALSE
    /\ UNCHANGED <<now, backend, ep_start, ep_calls, faultVars, gpsVars, authVars,
                   routeVars, keyVars, usageVars, hookVars, rerouteVars, lateVars>>

WindowIdle ==
    /\ last_admitted = <<>>
    /\ rejected_run = 0
    /\ rejected_before = 0

RateIdle ==
    /\ now = 0
    /\ fresh = TRUE
    /\ rl_store = {}
    /\ rl_last = None
    /\ ep_start = 0
    /\ ep_calls = 0

(***************************************************************************)
(* API key manager (saas/auth/api_keys.py) and the account endpoints       *)
(***************************************************************************)
MaxKeys == 2

MaxDay == 2

MaxUsage == 1

UserIds == {"u1", "u2"}

\* CreateAPIKeyRequest.expires_in_days: Optional[int], any integer
ExpiresInDays == {Absent, <<0>>, <<-1>>, <<1>>}

\* the limit on active keys per user
MaxActiveKeys == 10

NoOp == [op |-> "none", user |-> None, secret |-> 0, result |-> None]

JustCreated == IF key_last.op = "create" THEN key_last ELSE NoOp

\* hashlib.sha256(full_key).hexdigest(): a digest, distinct for distinct
\* secrets (no collision among the keys issued)
hash_api_key(api_key) == <<"sha256", api_key>>

\* generate_api_key: the n-th key issued carries the n-th random secret
generate_api_key(n) == [full_key |-> n, key_hash |-> hash_api_key(n)]

\* every row of the user counts, active or not
ActiveKeysOf_all(keys, user_id) ==
    {i \in 1..Len(keys) : keys[i].user_id = user_id}

ActiveKeysOf(keys, user_id) ==
    {i \in 1..Len(keys) : keys[i].user_id = user_id /\ keys[i].is_active}

\* create_api_key, past the user lookup and the key count check: the row added
create_api_key(keys, user_id, expires_in_days, day) ==
    LET g == generate_api_key(Len(keys) + 1)
    IN  [user_id     |-> user_id,
         key_hash    |-> g.key_hash,
         is_active   |-> TRUE,
         expires_at  |-> IF expires_in_days # Absent /\ expires_in_days[1] # 0
                         THEN <<day + expires_in_days[1]>> ELSE Absent,
         usage_count |-> 0]

\* the lookup by hash alone, without the is_active filter
validate_api_key_any(keys, usrs, api_key, day) ==
    LET key_hash == hash_api_key(api_key)
        found    == {i \in 1..Len(keys) : keys[i].key_hash = key_hash}
    IN  IF found = {} THEN [id |-> 0, user_id |-> None]
        ELSE LET i == CHOOSE j \in found : TRUE
             IN  IF keys[i].expires_at # Absent /\ keys[i].expires_at[1] < day
                 THEN [id |-> i, user_id |-> None]
                 ELSE IF ~usrs[keys[i].user_id].is_active
                      THEN [id |-> i, user_id |-> None]
                      ELSE [id |-> i, user_id |-> keys[i].user_id]

\* validate_api_key: the id of the matching row and the user_id returned,
\* or None for "return None"
validate_api_key(keys, usrs, api_key, day) ==
    LET key_hash == hash_api_key(api_key)
        found    == {i \in 1..Len(keys) :
                        keys[i].key_hash = key_hash /\ keys[i].is_active}
    IN  IF found = {} THEN [id |-> 0, user_id |-> None]
        ELSE LET i == CHOOSE j \in found : TRUE
             IN  IF keys[i].expires_at # Absent /\ keys[i].expires_at[1] < day
                 THEN [id |-> i, user_id |-> None]
                 ELSE IF ~usrs[keys[i].user_id].is_active
                      THEN [id |-> i, user_id |-> None]
                      ELSE [id |-> i, user_id |-> keys[i].user_id]

\* POST /api-keys by an authenticated (hence active) user
CreateApiKey ==
    /\ Len(api_keys) < MaxKeys
    /\ \E u \in UserIds, d \in ExpiresInDays :
          /\ users[u].is_active
          /\ IF Cardinality(ActiveKeysOf(api_keys, u)) >= MaxActiveKeys
             THEN /\ api_keys' = api_keys
                  /\ key_last' = [op |-> "create", user |-> u, secret |-> 0,
                                  result |-> "400"]
             ELSE /\ api_keys' = Append(api_keys, create_api_key(api_keys, u, d, today))
                  /\ key_last' = [op |-> "create", user |-> u,
                                  secret |-> generate_api_key(Len(api_keys) + 1).full_key,
                                  result |-> "created"]
    /\ key_prev' = JustCreated
    /\ UNCHANGED <<users, today, revoked, deleted_keys, notKeys>>

\* validate_api_key(api_key) for a secret issued earlier or for a string that
\* is no key (0)
ValidateApiKey ==
    /\ \E k \in 0..Len(api_keys) :
          LET v == validate_api_key(api_keys, users, k, today)
          IN  /\ v.user_id # None => api_keys[v.id].usage_count < MaxUsage
              /\ api_keys' = IF v.user_id = None THEN api_keys
                             ELSE [api_keys EXCEPT ![v.id].usage_count = @ + 1]
              /\ key_last' = [op |-> "validate", user |-> None, secret |-> k,
                              result |-> v.user_id]
    /\ key_prev' = JustCreated
    /\ UNCHANGED <<users, today, revoked, deleted_keys, notKeys>>

\* DELETE /api-keys/{id} by an authenticated user: revoke_api_key
RevokeApiKey ==
    /\ \E u \in UserIds, id \in 1..Len(api_keys) :
          /\ users[u].is_active
          /\ IF api_keys[id].user_id = u
             THEN /\ api_keys' = [api_keys EXCEPT ![id].is_active = FALSE]
                  /\ revoked' = revoked \cup {id}
                  /\ key_last' = [op |-> "revoke", user |-> u, secret |-> id,
                                  result |-> "revoked"]
             ELSE /\ UNCHANGED <<api_keys, revoked>>
                  /\ key_last' = [op |-> "revoke", user |-> u, secret |-> id,
                                  result |-> "404"]
    /\ key_prev' = JustCreated
    /\ UNCHANGED <<users, today, deleted_keys, notKeys>>

\* DELETE /account by an authenticated user
DeleteUserAccount ==
    /\ \E u \in UserIds :
          /\ users[u].is_active
          /\ users' = [users EXCEPT ![u].is_active = FALSE]
          /\ api_keys' = [i \in 1..Len(api_keys) |->
                             IF api_keys[i].user_id = u
                             THEN [api_keys[i] EXCEPT !.is_active = FALSE]
                             ELSE api_keys[i]]
          /\ deleted_keys' = deleted_keys \cup
                                 {i \in 1..Len(api_keys) : api_keys[i].user_id = u}
          /\ key_last' = [op |-> "delete_account", user |-> u, secret |-> 0,
                          result |-> None]
    /\ key_prev' = JustCreated
    /\ UNCHANGED <<today, revoked, notKeys>>

\* PUT /users/{user_id}/status by an administrator
UpdateUserStatus ==
    /\ \E u \in UserIds, is_active \in BOOLEAN :
          /\ users[u].is_active # is_active
          /\ users' = [users EXCEPT ![u].is_active = is_active]
          /\ key_last' = [op |-> "status", user |-> u, secret |-> 0, result |-> None]
    /\ key_prev' = JustCreated
    /\ UNCHANGED <<api_keys, today, revoked, deleted_keys, notKeys>>

\* cleanup_expired_keys
CleanupExpiredKeys ==
    /\ \E i \in 1..Len(api_keys) :
          api_keys[i].is_active /\ api_keys[i].expires_at # Absent
          /\ api_keys[i].expires_at[1] < today
    /\ api_keys' = [i \in 1..Len(api_keys) |->
                       IF api_keys[i].is_active /\ api_keys[i].expires_at # Absent
                          /\ api_keys[i].expires_at[1] < today
                       THEN [api_keys[i] EXCEPT !.is_active = FALSE]
                       ELSE api_keys[i]]
    /\ key_last' = [op |-> "cleanup", user |-> None, secret |-> 0, result |-> None]
    /\ key_prev' = JustCreated
    /\ UNCHANGED <<users, today, revoked, deleted_keys, notKeys>>

\* a day passes
KeyTick ==
    /\ today < MaxDay
    /\ today' = today + 1
    /\ key_last' = [op |-> "tick", user |-> None, secret |-> 0, result |-> None]
    /\ key_prev' = JustCreated
    /\ UNCHANGED <<users, api_keys, revoked, deleted_keys, notKeys>>

\* bound: API key rows of the user who fills the quota
QuotaKeys == 11

\* the user who fills the quota, and the key lifetimes that user asks for
QuotaUser == "u1"

QuotaExpiresInDays == {Absent, <<1>>}

\* bound: keys created with a lifetime
MaxExpiring == 1

ExpiringKeys(keys) == {i \in 1..Len(keys) : keys[i].expires_at # Absent}

\* POST /api-keys by the user who fills the quota
QuotaCreateApiKey ==
    /\ Cardinality(ActiveKeysOf(api_keys, QuotaUser)) < MaxActiveKeys =>
          Len(api_keys) < QuotaKeys
    /\ users[QuotaUser].is_active
    /\ \E d \in QuotaExpiresInDays :
          /\ d # Absent => Cardinality(ExpiringKeys(api_keys)) < MaxExpiring
          /\ IF Cardinality(ActiveKeysOf(api_keys, QuotaUser)) >= MaxActiveKeys
             THEN /\ api_keys' = api_keys
                  /\ key_last' = [op |-> "create", user |-> QuotaUser, secret |-> 0,
                                  result |-> "400"]
             ELSE /\ api_keys' = Append(api_keys,
                                        create_api_key(api_keys, QuotaUser, d, today))
                  /\ key_last' = [op |-> "create", user |-> QuotaUser,
                                  secret |-> generate_api_key(Len(api_keys) + 1).full_key,
                                  result |-> "created"]
    /\ key_prev' = JustCreated
    /\ UNCHANGED <<users, today, revoked, deleted_keys, notKeys>>

\* DELETE /api-keys/{id} by that user, for the oldest key: revoke_api_key
QuotaRevokeApiKey ==
    /\ Len(api_keys) >= 1
    /\ users[QuotaUser].is_active
    /\ api_keys[1].is_active
    /\ api_keys' = [api_keys EXCEPT ![1].is_active = FALSE]
    /\ revoked' = revoked \cup {1}
    /\ key_last' = [op |-> "revoke", user |-> QuotaUser, secret |-> 1,
                    result |-> "revoked"]
    /\ key_prev' = JustCreated
    /\ UNCHANGED <<users, today, deleted_keys, notKeys>>

KeysIdle ==
    /\ users = [u \in UserIds |-> [is_active |-> TRUE]]
    /\ api_keys = <<>>
    /\ today = 0
    /\ key_last = NoOp
    /\ key_prev = NoOp
    /\ revoked = {}
    /\ deleted_keys = {}

(***************************************************************************)
(* Usage service and the usage guard of the route-generation endpoints     *)
(***************************************************************************)
MaxRoutes == 11

MaxLogs == 5

\* addresses_count of the recorded requests
AddressCounts == {1, 5}

\* SUBSCRIPTION_TIERS[tier]["monthly_route_limit"]
SUBSCRIPTION_TIERS(tier) ==
    CASE tier = "free"         -> 10
      [] tier = "starter"      -> 200
      [] tier = "professional" -> 1000
      [] tier = "enterprise"   -> 10000

Subscriptions ==
    {Absent} \cup {<<[tier |-> t, status |-> "active",
                       monthly_route_limit |-> SUBSCRIPTION_TIERS(t)]>> :
                      t \in {"free", "starter"}}

\* UsageLimiter._get_current_usage_from_db
get_current_usage_from_db == 0

\* UsageLimiter._cache_usage: kept only when there is a Redis client
cache_usage(routes_used, monthly_limit) ==
    IF usage_backend = "redis"
    THEN <<[routes_used |-> routes_used, monthly_limit |-> monthly_limit]>>
    ELSE <<>>

\* UsageLimiter.check_usage_limit: (allowed, usage_info) and the cache it leaves
check_usage_limit(cache, monthly_limit) ==
    LET current_usage == IF cache # <<>> THEN cache[1].routes_used
                         ELSE get_current_usage_from_db
    IN  [allowed       |-> current_usage < monthly_limit,
         current_usage |-> current_usage,
         remaining     |-> Max2(0, monthly_limit - current_usage),
         cache         |-> IF cache # <<>> THEN cache
                           ELSE cache_usage(current_usage, monthly_limit)]

\* allowed up to and including the limit
usage_service_allowed_le == routes_generated <= subscription[1].monthly_route_limit

\* UsageService.check_usage_limits: its "allowed" for the current month
usage_service_allowed == routes_generated < subscription[1].monthly_route_limit

\* the UsageRecord updated whatever the outcome of the request
monthly_usage_always(success, addresses_count) ==
    [routes_generated |-> routes_generated + addresses_count,
     api_calls_made   |-> api_calls_made + 1]

\* record_route_usage: "if success: await self._update_monthly_usage(...)",
\* the UsageRecord of the current month after the call
monthly_usage(success, addresses_count) ==
    IF success
    THEN [routes_generated |-> routes_generated + addresses_count,
          api_calls_made   |-> api_calls_made + 1]
    ELSE [routes_generated |-> routes_generated,
          api_calls_made   |-> api_calls_made]

\* UsageService.record_route_usage of a successful or failed request:
\* _update_monthly_usage adds addresses_count to routes_generated
RecordRouteUsage ==
    /\ route_logs < MaxLogs
    /\ \E addresses_count \in AddressCounts, success \in BOOLEAN :
          /\ success => routes_generated + addresses_count <= MaxRoutes
          /\ routes_generated' = monthly_usage(success, addresses_count).routes_generated
          /\ api_calls_made' = monthly_usage(success, addresses_count).api_calls_made
          /\ last_log' = <<[addresses_count |-> addresses_count, success |-> success]>>
    /\ route_logs' = route_logs + 1
    /\ guard_last' = None
    /\ UNCHANGED <<subscription, usage_backend, usage_cache, notUsage>>

\* the check_usage_limits dependency of an authenticated request
CheckUsageLimits ==
    /\ IF subscription = Absent
       THEN /\ guard_last' = "404"
            /\ UNCHANGED usage_cache
       ELSE LET r == check_usage_limit(usage_cache, subscription[1].monthly_route_limit)
            IN  /\ guard_last' = IF r.allowed THEN "admitted" ELSE "402"
                /\ usage_cache' = r.cache
    /\ UNCHANGED <<subscription, routes_generated, api_calls_made, route_logs,
                   usage_backend, last_log, notUsage>>

\* the cached entry reaches its time to live (cache_duration)
UsageCacheExpire ==
    /\ usage_cache # <<>>
    /\ usage_cache' = <<>>
    /\ UNCHANGED <<subscription, routes_generated, api_calls_made, route_logs,
                   usage_backend, guard_last, last_log, notUsage>>

UsageIdle ==
    /\ subscription = Absent
    /\ routes_generated = 0
    /\ api_calls_made = 0
    /\ route_logs = 0
    /\ usage_backend = "memory"
    /\ usage_cache = <<>>
    /\ guard_last = None
    /\ last_log = <<>>

UsageStart ==
    /\ subscription \in Subscriptions
    /\ routes_generated = 0
    /\ api_calls_made = 0
    /\ route_logs = 0
    /\ usage_backend \in {"redis", "memory"}
    /\ usage_cache = <<>>
    /\ guard_last = None
    /\ last_log = <<>>

(***************************************************************************)
(* Stripe webhook endpoint (saas/api/webhooks.py)                          *)
(***************************************************************************)
MaxDeliveries == 2

EventIds == {"evt_1", "evt_2"}

\* the stripe-signature header: absent, failing verification, or verifying
Signatures == {"missing", "invalid", "valid"}

EventTypes ==
    {"customer.subscription.deleted", "invoice.payment_failed",
     "invoice.payment_succeeded", "charge.refunded"}

\* whether the customer / subscription id of the event is the one of the row
Targets == {"known", "unknown"}

NoRequest == [signature |-> "none", id |-> "none", type |-> "none", target |-> "none"]

NoResponse == [status_code |-> 0, received |-> FALSE, processed |-> FALSE, error |-> "none"]

BadRequest(detail) ==
    [status_code |-> 400, received |-> FALSE, processed |-> FALSE, error |-> detail]

Acknowledged(processed, error) ==
    [status_code |-> 200, received |-> TRUE, processed |-> processed, error |-> error]

\* StripeService.construct_webhook_event: the exception it raises, or "none"
construct_webhook_event(signature) ==
    IF signature = "valid" THEN "none" ELSE "HTTPException"

\* StripeService.handle_subscription_deleted
handle_subscription_deleted(sub, target) ==
    IF sub = Absent \/ target # "known" THEN [success |-> FALSE, sub |-> sub]
    ELSE [success |-> TRUE,
          sub |-> <<[tier |-> "free", status |-> "canceled",
                     monthly_route_limit |-> SUBSCRIPTION_TIERS("free")]>>]

\* handle_invoice_payment_failed
handle_invoice_payment_failed(sub, target) ==
    IF sub = Absent \/ target # "known" THEN [success |-> TRUE, sub |-> sub]
    ELSE [success |-> TRUE, sub |-> <<[sub[1] EXCEPT !.status = "past_due"]>>]

\* handle_invoice_payment_succeeded, for an invoice that names no subscription
handle_invoice_payment_succeeded(sub, target) ==
    IF sub = Absent \/ target # "known" THEN [success |-> TRUE, sub |-> sub]
    ELSE [success |-> TRUE, sub |-> <<[sub[1] EXCEPT !.status = "active"]>>]

\* process_webhook_event
process_webhook_event(sub, event) ==
    CASE event.type = "customer.subscription.deleted" ->
            handle_subscription_deleted(sub, event.target)
      [] event.type = "invoice.payment_failed" ->
            handle_invoice_payment_failed(sub, event.target)
      [] event.type = "invoice.payment_succeeded" ->
            handle_invoice_payment_succeeded(sub, event.target)
      [] OTHER -> [success |-> TRUE, sub |-> sub]

WebhookLog(event) ==
    [stripe_event_id |-> event.id, event_type |-> event.type,
     event_data |-> event.target, processed |-> FALSE,
     processing_attempts |-> 0, last_error |-> "none"]

\* db.add(webhook_log); db.commit() without the unique index on stripe_event_id
insert_webhook_log_dup(logs, event) ==
    [raised |-> "none", logs |-> Append(logs, WebhookLog(event))]

\* db.add(webhook_log); db.commit(): stripe_event_id is unique, a second row
\* with the same event id is refused with an IntegrityError
insert_webhook_log(logs, event) ==
    IF \E i \in 1..Len(logs) : logs[i].stripe_event_id = event.id
    THEN [raised |-> "IntegrityError", logs |-> logs]
    ELSE [raised |-> "none", logs |-> Append(logs, WebhookLog(event))]

\* the except clauses of handle_stripe_webhook, in order: only a
\* SignatureVerificationError that reaches the handler is answered 400, any
\* other exception (an HTTPException included) is acknowledged
handle_exception(raised) ==
    IF raised = "SignatureVerificationError" THEN BadRequest("Invalid signature")
    ELSE Acknowledged(FALSE, raised)

\* handle_stripe_webhook: the rows, the subscription and the response it leaves
handle_stripe_webhook(logs, sub, signature, event) ==
    IF signature = "missing"
    THEN [logs |-> logs, sub |-> sub, response |-> handle_exception("HTTPException")]
    ELSE IF construct_webhook_event(signature) # "none"
    THEN [logs |-> logs, sub |-> sub,
          response |-> handle_exception(construct_webhook_event(signature))]
    ELSE LET ins == insert_webhook_log(logs, event)
         IN  IF ins.raised # "none"
             THEN [logs |-> ins.logs, sub |-> sub, response |-> handle_exception(ins.raised)]
             ELSE LET r == process_webhook_event(sub, event)
                      n == Len(ins.logs)
                  IN  [logs |-> [ins.logs EXCEPT
                                    ![n].processing_attempts = @ + 1,
                                    ![n].processed = r.success,
                                    ![n].last_error = IF r.success THEN "none"
                                                      ELSE "Processing failed"],
                       sub |-> r.sub,
                       response |-> Acknowledged(r.success, "none")]

RowsOf(id) == {i \in 1..Len(webhook_logs) : webhook_logs[i].stripe_event_id = id}

\* one request to POST /webhooks/stripe; a verified event that was delivered
\* before comes with the type and data it had the first time
StripeWebhook ==
    /\ \E signature \in Signatures, id \in EventIds, type \in EventTypes,
          target \in Targets :
          LET event == [id |-> id, type |-> type, target |-> target]
              out   == handle_stripe_webhook(webhook_logs, subscription, signature, event)
          IN  /\ subscription = Absent => target = "unknown"
              /\ \A i \in RowsOf(id) :
                    /\ webhook_logs[i].event_type = type
                    /\ webhook_logs[i].event_data = target
              /\ signature = "valid" => deliveries[id] < MaxDeliveries
              /\ wh_request' = [signature |-> signature, id |-> id, type |-> type,
                                target |-> target]
              /\ deliveries' = IF signature = "valid"
                               THEN [deliveries EXCEPT ![id] = @ + 1] ELSE deliveries
              /\ webhook_logs' = out.logs
              /\ subscription' = out.sub
              /\ wh_response' = out.response
    /\ UNCHANGED notHook

HookIdle ==
    /\ webhook_logs = <<>>
    /\ deliveries = [id \in EventIds |-> 0]
    /\ wh_request = NoRequest
    /\ wh_response = NoResponse

(***************************************************************************)
(* Live re-routing (app/main.py)                                           *)
(***************************************************************************)
\* the id of the stop an add_stop change brings
NewStopId == 3

\* total_time_hours of the routes of a request, in hundredths of an hour
RouteHours == {200, 900}

\* the stops of a re-routing request: each of the two stops is listed or not
RerouteStops ==
    LET s1 == {<<>>} \cup {<<s>> : s \in
                  [stop_id : {1}, pallets : 1..MaxPallets, special_constraint : {"None"},
                   window : {<<480, 1020>>}, pos : {1},
                   service_time_minutes : {DefaultServiceTime}]}
        s2 == {<<>>} \cup {<<s>> : s \in
                  [stop_id : {2}, pallets : {1}, special_constraint : {"None", "Hazmat"},
                   window : {<<480, 1020>>}, pos : {2},
                   service_time_minutes : {DefaultServiceTime}]}
    IN  {a \o b : a \in s1, b \in s2}

RerouteTrucks ==
    {<<t1, t2>> :
        t1 \in [truck_id : {TruckIds[1]}, max_pallets : {MaxCapacity},
                truck_type : {"Dry", "Hazmat"}, shift : Shifts,
                depot_pos : {DepotPosition}, avg_speed_mph : {DefaultSpeed}],
        t2 \in [truck_id : {TruckIds[2]}, max_pallets : {MaxCapacity},
                truck_type : {"Dry"}, shift : Shifts,
                depot_pos : {DepotPosition}, avg_speed_mph : {DefaultSpeed}]}

\* a route of the request: its stops carry one pallet each and lie one
\* MileUnit per stop id from the stop before
OriginalRoute(truck_id, ids, hours) ==
    [truck_id |-> truck_id,
     stops |-> [i \in 1..Len(ids) |->
                   [stop_id |-> ids[i], arrival_time |-> 540,
                    distance_from_previous |-> ids[i] * MileUnit, pallets |-> 1]],
     total_miles |-> SumSeq([i \in 1..Len(ids) |-> ids[i] * MileUnit]),
     utilization_percent |-> Utilization(Len(ids), MaxCapacity),
     total_time_hours |-> hours]

OriginalRoutes ==
    LET r1 == {<<>>} \cup {<<OriginalRoute(TruckIds[1], ids, h)>> :
                              ids \in {<<>>, <<1>>, <<2>>, <<1, 2>>}, h \in RouteHours}
        r2 == {<<>>} \cup {<<OriginalRoute(TruckIds[2], ids, 400)>> :
                              ids \in {<<1>>, <<2>>}}
    IN  {a \o b : a \in r1, b \in r2}

\* the changes dict: each key is absent (<<>>) or carries its data
Changes ==
    [cancel_stop : {Absent, <<[stop_id |-> 1]>>, <<[stop_id |-> 2]>>},
     add_stop : {Absent} \cup
                {<<d>> : d \in [stop_id : {NewStopId}, has_address : {TRUE},
                                pallets : {1, MaxCapacity, MaxCapacity + 1},
                                special_constraint : {"None"}]}
                \cup {<<[stop_id |-> NewStopId, has_address |-> FALSE, pallets |-> 1,
                         special_constraint |-> "None"]>>},
     delay_stop : {Absent, <<[stop_id |-> 2, new_time_window |-> <<600, 720>>]>>},
     change_priority : {Absent, <<[stop_id |-> 1, priority |-> "urgent"]>>}]

LogLine(kind, truck, stop, value) ==
    [kind |-> kind, truck |-> truck, stop |-> stop, value |-> value]

\* f"{miles:.1f}" of a whole number of miles, as a number of tenths
FormatMiles(miles) == miles * 10

HasStop(route, id) == \E k \in 1..Len(route.stops) : route.stops[k].stop_id = id

\* "for route in original_routes: if any(...): ...; break": the first route
\* that contains the stop, if any
routes_with_stop(original_routes, id) ==
    LET all == {i \in 1..Len(original_routes) : HasStop(original_routes[i], id)}
    IN  IF all = {} THEN {} ELSE {CHOOSE i \in all : \A j \in all : i <= j}

FirstRouteStop(route, id) ==
    route.stops[CHOOSE k \in 1..Len(route.stops) :
                   /\ route.stops[k].stop_id = id
                   /\ \A j \in 1..(k - 1) : route.stops[j].stop_id # id]

\* the trucks of all the original routes
MarkedBy_every(original_routes, hit) ==
    {original_routes[i].truck_id : i \in 1..Len(original_routes)}

\* affected_trucks.add(route.truck_id) for the route found
MarkedBy(original_routes, hit) == {original_routes[i].truck_id : i \in hit}

\* the cancel_stop block
cancel_stop_block(st, original_routes, changes) ==
    IF changes.cancel_stop = Absent THEN st
    ELSE LET id  == changes.cancel_stop[1].stop_id
             hit == routes_with_stop(original_routes, id)
         IN  IF ~\E k \in 1..Len(st.stops) : st.stops[k].stop_id = id THEN st
             ELSE [stops |-> SelectSeq(st.stops, LAMBDA x : x.stop_id # id),
                   affected |-> st.affected \cup MarkedBy(original_routes, hit),
                   log |-> st.log \o <<LogLine("cancelled", None, id, 0)>>
                           \o [n \in 1..Cardinality(hit) |->
                                 LET r == original_routes[CHOOSE i \in hit : TRUE]
                                 IN  LogLine("freed", r.truck_id, id,
                                       FormatMiles(FirstRouteStop(r, id).distance_from_previous))]]

\* _is_truck_compatible_with_stop
is_truck_compatible_with_stop(truck, stop) ==
    stop.special_constraint \in compatibility_rules(truck.truck_type)

\* the score of a truck that has a route, times 80000; current_pallets is a
\* sum over an empty list, so remaining_capacity is max_pallets
TruckScore(truck, current_route) ==
    LET remaining_capacity == truck.max_pallets - 0
    IN  24 * current_route.utilization_percent
        + (32000 * remaining_capacity) \div truck.max_pallets
        + 24000 - 30 * Min2(current_route.total_time_hours, 800)

\* _find_best_truck_for_new_stop: the loop over trucks[k..], with the best so far
RECURSIVE FindBestTruck(_, _, _, _, _, _)
FindBestTruck(new_stop, trucks, original_routes, k, best_truck, best_score) ==
    IF k > Len(trucks) THEN best_truck
    ELSE LET truck == trucks[k]
             mine  == {i \in 1..Len(original_routes) :
                          original_routes[i].truck_id = truck.truck_id}
         IN  IF ~is_truck_compatible_with_stop(truck, new_stop)
             THEN FindBestTruck(new_stop, trucks, original_routes, k + 1,
                                best_truck, best_score)
             ELSE IF mine = {}
             THEN IF truck.max_pallets >= new_stop.pallets THEN truck.truck_id
                  ELSE FindBestTruck(new_stop, trucks, original_routes, k + 1,
                                     best_truck, best_score)
             ELSE LET current_route ==
                         original_routes[CHOOSE i \in mine : \A j \in mine : i <= j]
                      total_score == TruckScore(truck, current_route)
                  IN  IF truck.max_pallets - 0 >= new_stop.pallets
                         /\ total_score > best_score
                      THEN FindBestTruck(new_stop, trucks, original_routes, k + 1,
                                         truck.truck_id, total_score)
                      ELSE FindBestTruck(new_stop, trucks, original_routes, k + 1,
                                         best_truck, best_score)

find_best_truck_for_new_stop(new_stop, trucks, original_routes) ==
    FindBestTruck(new_stop, trucks, original_routes, 1, None, 0)

\* the add_stop block; the new stop takes the default window 08:00-17:00
add_stop_block(st, trucks, original_routes, changes) ==
    IF changes.add_stop = Absent THEN st
    ELSE IF ~changes.add_stop[1].has_address THEN st
    ELSE LET d == changes.add_stop[1]
             new_stop == [stop_id |-> d.stop_id, pallets |-> d.pallets,
                          special_constraint |-> d.special_constraint,
                          window |-> <<480, 1020>>, pos |-> d.stop_id,
                          service_time_minutes |-> DefaultServiceTime]
             best_truck == find_best_truck_for_new_stop(new_stop, trucks, original_routes)
         IN  [stops |-> Append(st.stops, new_stop),
              affected |-> IF best_truck # None THEN st.affected \cup {best_truck}
                           ELSE st.affected \cup {trucks[i].truck_id : i \in 1..Len(trucks)},
              log |-> st.log \o <<LogLine("added", None, d.stop_id, d.pallets)>>
                      \o (IF best_truck # None
                          THEN <<LogLine("assigned", best_truck, d.stop_id, 0)>>
                          ELSE <<LogLine("all trucks", None, d.stop_id, 0)>>)]

\* the delay_stop block
delay_stop_block(st, original_routes, changes) ==
    IF changes.delay_stop = Absent THEN st
    ELSE LET id    == changes.delay_stop[1].stop_id
             w     == changes.delay_stop[1].new_time_window
             known == \E k \in 1..Len(st.stops) : st.stops[k].stop_id = id
             first == CHOOSE k \in 1..Len(st.stops) :
                         /\ st.stops[k].stop_id = id
                         /\ \A j \in 1..(k - 1) : st.stops[j].stop_id # id
             hit   == routes_with_stop(original_routes, id)
         IN  [stops |-> IF known THEN [st.stops EXCEPT ![first].window = w] ELSE st.stops,
              affected |-> st.affected \cup MarkedBy(original_routes, hit),
              log |-> st.log
                      \o (IF known THEN <<LogLine("delayed", None, id, 0)>> ELSE <<>>)
                      \o [n \in 1..Cardinality(hit) |->
                            LET r == original_routes[CHOOSE i \in hit : TRUE]
                            IN  LogLine("delay affects", r.truck_id, id,
                                   Cardinality({k \in 1..Len(r.stops) :
                                                   r.stops[k].stop_id > id}))]]

\* the change_priority block
change_priority_block(st, original_routes, changes) ==
    IF changes.change_priority = Absent THEN st
    ELSE LET id  == changes.change_priority[1].stop_id
             hit == routes_with_stop(original_routes, id)
         IN  [st EXCEPT !.affected = @ \cup MarkedBy(original_routes, hit),
                        !.log = @ \o [n \in 1..Cardinality(hit) |->
                                   LogLine("priority",
                                      original_routes[CHOOSE i \in hit : TRUE].truck_id,
                                      id, 0)]]

\* _apply_routing_changes: (modified_stops, affected_trucks, change_log)
apply_routing_changes(stops, trucks, original_routes, changes) ==
    LET st0 == [stops |-> stops, affected |-> {}, log |-> <<>>]
        st1 == cancel_stop_block(st0, original_routes, changes)
        st2 == add_stop_block(st1, trucks, original_routes, changes)
        st3 == delay_stop_block(st2, original_routes, changes)
    IN  change_priority_block(st3, original_routes, changes)

\* the stop ids handed to the engine: those of the affected trucks' original
\* routes and the id an add_stop change names
affected_stop_ids(request, affected) ==
    UNION {RouteStopIds(request.original_routes[i]) :
              i \in {j \in 1..Len(request.original_routes) :
                        /\ request.original_routes[j].truck_id \in affected
                        /\ \A h \in 1..(j - 1) :
                              request.original_routes[h].truck_id
                                 # request.original_routes[j].truck_id}}
    \cup (IF request.changes.add_stop # Absent
          THEN {request.changes.add_stop[1].stop_id} ELSE {})

\* [t for t in request.trucks if t.truck_id in affected_trucks]
affected_truck_objs(trucks, affected) ==
    SelectSeq(trucks, LAMBDA t : t.truck_id \in affected)

\* the merge loop over request.original_routes; new_routes is the engine's
\* result, one route per truck it was given
merge_routes(original_routes, affected, new_routes) ==
    LET pick(r) ==
           IF r.truck_id \in affected
           THEN LET got == {i \in 1..Len(new_routes) : new_routes[i].truck_id = r.truck_id}
                IN  IF got = {} THEN <<>> ELSE <<new_routes[CHOOSE i \in got : TRUE]>>
           ELSE <<r>>
        F[k \in 0..Len(original_routes)] ==
           IF k = 0 THEN <<>> ELSE F[k - 1] \o pick(original_routes[k])
    IN  F[Len(original_routes)]

\* the parameters _analyze_rerouting_impact declares and the arguments
\* live_rerouting passes to it
AnalyzeParams == 3

AnalyzeArgs == 4

\* the call of _analyze_rerouting_impact and what follows it: a TypeError
\* when the argument count is not the parameter count, which the handler
\* answers with HTTP 500; otherwise the RoutingResponse with the merged routes
rerouting_response(routes) ==
    IF AnalyzeArgs = AnalyzeParams THEN [status_code |-> 200, routes |-> routes]
    ELSE [status_code |-> 500, routes |-> <<>>]

\* POST /route/recalculate up to the call of the routing engine; without an
\* affected truck the handler runs to its end
RerouteStart ==
    /\ rr_pc = "idle"
    /\ pc = "idle"
    /\ \E stops \in RerouteStops, trucks \in RerouteTrucks,
          original_routes \in OriginalRoutes, changes \in Changes :
          LET request == [original_routes |-> original_routes, stops |-> stops,
                          trucks |-> trucks, changes |-> changes]
              st == apply_routing_changes(stops, trucks, original_routes, changes)
              ids == affected_stop_ids(request, st.affected)
              affected_stops == SelectSeq(st.stops, LAMBDA x : x.stop_id \in ids)
              objs == affected_truck_objs(trucks, st.affected)
          IN  /\ rr_request' = request
              /\ modified_stops' = st.stops
              /\ affected_trucks' = st.affected
              /\ change_log' = st.log
              /\ cancel_effect' = cancel_stop_block(
                                     [stops |-> stops, affected |-> {}, log |-> <<>>],
                                     original_routes, changes)
              /\ IF st.affected = {}
                 THEN /\ final_routes' = original_routes
                      /\ rr_pc' = "answered"
                      /\ rr_response' = rerouting_response(original_routes)
                      /\ UNCHANGED routeVars
                 ELSE /\ req' = [stops |-> affected_stops, trucks |-> objs]
                      /\ queue' = SortTrucks(objs)
                      /\ pc' = IF objs = <<>> THEN "done" ELSE "routing"
                      /\ truck_routes' = <<>>
                      /\ assigned_stops' = {}
                      /\ rr_pc' = "routing"
                      /\ UNCHANGED <<final_routes, rr_response>>
    /\ UNCHANGED notReroute

\* the rest of the handler once route_trucks has returned
RerouteMerge ==
    /\ rr_pc = "routing"
    /\ pc = "done"
    /\ final_routes' = merge_routes(rr_request.original_routes, affected_trucks,
                                    truck_routes)
    /\ rr_pc' = "answered"
    /\ rr_response' = rerouting_response(final_routes')
    /\ UNCHANGED <<rr_request, modified_stops, affected_trucks, change_log,
                   cancel_effect, routeVars, notReroute>>

RerouteIdle ==
    /\ rr_pc = "idle"
    /\ rr_request = [original_routes |-> <<>>, stops |-> <<>>, trucks |-> <<>>,
                     changes |-> [cancel_stop |-> Absent, add_stop |-> Absent,
                                  delay_stop |-> Absent, change_priority |-> Absent]]
    /\ modified_stops = <<>>
    /\ affected_trucks = {}
    /\ change_log = <<>>
    /\ cancel_effect = [stops |-> <<>>, affected |-> {}, log |-> <<>>]
    /\ final_routes = <<>>
    /\ rr_response = [status_code |-> 0, routes |-> <<>>]

(***************************************************************************)
(* The limit checks when the cache or the database fails during the call   *)
(* (saas/middleware/rate_limiting.py, saas/middleware/auth_middleware.py,   *)
(* saas/services/usage_service.py)                                         *)
(***************************************************************************)
\* what can fail during RateLimiter.check_rate_limit on the Redis path:
\* "execute": pipe.execute() raises and the transaction is not applied;
\* "reply":   pipe.execute() raises after the server applied the transaction;
\* "zrem":    the zrem of a rejected call raises
RateFaults == {"none", "execute", "reply", "zrem"}

\* what can fail during the usage guard: the User query of the dependency
\* ("db"), the Redis get/setex of the usage cache ("cache"), anything else
\* inside UsageLimiter.check_usage_limit ("unexpected")
GuardFaults == {"none", "db", "cache", "unexpected"}

\* what can fail during UsageService.check_usage_limits: its queries ("db")
ServiceFaults == {"none", "db"}

NoCheck == [check |-> "none", fault |-> "none", allowed |-> TRUE]

\* _redis_rate_limit, ended by the exception the fault raises (if any)
redis_rate_limit_under(store, t, limit, window, fault) ==
    LET kept == {x \in store : ~(x <= t - window)}
        r    == redis_rate_limit(store, t, limit, window)
    IN  CASE fault = "execute" -> [raised |-> TRUE, store |-> store,
                                   allowed |-> FALSE, remaining |-> 0]
          [] fault = "reply"   -> [raised |-> TRUE, store |-> kept \cup {t},
                                   allowed |-> FALSE, remaining |-> 0]
          [] fault = "zrem" /\ ~r.allowed ->
                                  [raised |-> TRUE, store |-> kept \cup {t},
                                   allowed |-> FALSE, remaining |-> 0]
          [] OTHER -> [raised |-> FALSE, store |-> r.store,
                       allowed |-> r.allowed, remaining |-> r.remaining]

\* RateLimiter.check_rate_limit with its try/except around the Redis path:
\* the except branch answers (True, remaining = limit)
check_rate_limit_under(store, t, tier, override, fault) ==
    LET limit == get_rate_limit(tier, override)
    IN  IF backend = "memory"
        THEN memory_rate_limit(store, t, limit, WindowDuration)
        ELSE LET r == redis_rate_limit_under(store, t, limit, WindowDuration, fault)
             IN  IF r.raised
                 THEN [store |-> r.store, allowed |-> TRUE, remaining |-> limit]
                 ELSE [store |-> r.store, allowed |-> r.allowed,
                       remaining |-> r.remaining]

\* UsageLimiter.check_usage_limit: _get_cached_usage and _cache_usage swallow
\* a cache error (the entry reads as None and is not written); any other
\* exception ends the call with (True, {"error": ...})
check_usage_limit_under(cache, monthly_limit, fault) ==
    CASE fault = "unexpected" ->
            [allowed |-> TRUE, current_usage |-> 0, remaining |-> 0, cache |-> cache]
      [] fault = "cache" ->
            [allowed       |-> get_current_usage_from_db < monthly_limit,
             current_usage |-> get_current_usage_from_db,
             remaining     |-> Max2(0, monthly_limit - get_current_usage_from_db),
             cache         |-> cache]
      [] OTHER -> check_usage_limit(cache, monthly_limit)

\* the check_usage_limits dependency: HTTPException is re-raised, any other
\* exception is logged and the request goes on
guard_check_usage_limits(fault) ==
    IF fault = "db"
    THEN [outcome |-> "admitted", cache |-> usage_cache]
    ELSE IF subscription = Absent
         THEN [outcome |-> "404", cache |-> usage_cache]
         ELSE LET r == check_usage_limit_under(usage_cache,
                                               subscription[1].monthly_route_limit, fault)
              IN  [outcome |-> IF r.allowed THEN "admitted" ELSE "402",
                   cache   |-> r.cache]

\* UsageService.check_usage_limits: the dictionary it returns
service_check_usage_limits(fault) ==
    IF fault = "db"
    THEN [allowed |-> FALSE, reason |-> "Failed to check usage limits"]
    ELSE IF subscription = Absent
         THEN [allowed |-> FALSE, reason |-> "No subscription found"]
         ELSE [allowed |-> usage_service_allowed,
               reason  |-> IF usage_service_allowed THEN None
                           ELSE "Monthly route limit exceeded"]

\* one check_rate_limit call during which the cache may fail
RateCheckUnderFault ==
    /\ fault_scope = "rate"
    /\ fresh
    /\ \E fault \in RateFaults :
          /\ fault # "none" => backend = "redis"
          /\ fault = "zrem" =>
                ~redis_rate_limit(rl_store, now, get_rate_limit("free", Absent),
                                  WindowDuration).allowed
          /\ LET r == check_rate_limit_under(rl_store, now, "free", Absent, fault)
             IN  /\ rl_store' = r.store
                 /\ rl_last' = [allowed |-> r.allowed, remaining |-> r.remaining]
                 /\ fc_last' = [check |-> "rate", fault |-> fault, allowed |-> r.allowed]
    /\ fresh' = FALSE
    /\ UNCHANGED <<now, backend, ep_start, ep_calls, fault_scope, windowVars, gpsVars,
                   authVars, routeVars, keyVars, usageVars, hookVars, rerouteVars, lateVars>>

\* the clock of the rate limiter under faults
FaultTick == fault_scope = "rate" /\ Tick

\* one request through the usage guard during which the database or the
\* cache may fail
GuardUnderFault ==
    /\ fault_scope = "usage"
    /\ \E fault \in GuardFaults :
          \* the cache and the limiter are reached only with a subscription
          /\ fault \in {"cache", "unexpected"} => subscription # Absent
          /\ fault = "cache" => usage_backend = "redis"
          /\ LET g == guard_check_usage_limits(fault)
             IN  /\ guard_last' = g.outcome
                 /\ usage_cache' = g.cache
                 /\ fc_last' = [check |-> "guard", fault |-> fault,
                                allowed |-> g.outcome = "admitted"]
    /\ UNCHANGED <<subscription, routes_generated, api_calls_made, route_logs,
                   usage_backend, last_log, fault_scope, windowVars, gpsVars, authVars,
                   routeVars, rateVars,
                   keyVars, hookVars, rerouteVars, lateVars>>

\* one UsageService.check_usage_limits call during which the database may fail
ServiceCheckUnderFault ==
    /\ fault_scope = "usage"
    /\ \E fault \in ServiceFaults :
          fc_last' = [check |-> "service", fault |-> fault,
                      allowed |-> service_check_usage_limits(fault).allowed]
    /\ UNCHANGED <<usageVars, fault_scope, windowVars, gpsVars, authVars, routeVars,
                   rateVars, keyVars,
                   hookVars, rerouteVars, lateVars>>

\* the usage the checks are made against
FaultRecordUsage == fault_scope = "usage" /\ RecordRouteUsage

FaultCacheExpire == fault_scope = "usage" /\ UsageCacheExpire

FaultIdle ==
    /\ fault_scope = "none"
    /\ fc_last = NoCheck

(***************************************************************************)
(* GPS tracking service: ingestion and the live broadcast                  *)
(* (services/gps_tracking.py, app/gps_routes.py)                           *)
(***************************************************************************)
\* bound: GPSPosition rows ingested
MaxPositions == 3

\* the WebSocket objects of the live-tracking channel
Clients == {"ws1", "ws2", "ws3"}

\* what "await client.send(...)" does: it returns, it raises
\* websockets.exceptions.ConnectionClosed, or it raises an exception of
\* another class (the registered clients are the framework's WebSocket
\* objects, whose failures are not of that class)
SendOutcomes == {"sent", "ConnectionClosed", "Exception"}

NotConnected == "not_connected"

NoIngest == [result        |-> "none",
             send          |-> [c \in Clients |-> NotConnected],
             delivered     |-> {},
             clients_after |-> {}]

\* the orders in which "for client in self.connected_clients" can visit a set
IterationOrders(clients) ==
    {order \in [1..Cardinality(clients) -> clients] :
        \A i, j \in 1..Cardinality(clients) : order[i] = order[j] => i = j}

\* _broadcast_position_update: the loop ends at the first send that raises
\* anything but ConnectionClosed, and then the exception leaves the method
\* before "self.connected_clients -= disconnected_clients"
broadcast_position_update(clients, order, send) ==
    LET n       == Len(order)
        errors  == {i \in 1..n : send[order[i]] = "Exception"}
        stopped == IF errors = {} THEN n + 1
                   ELSE CHOOSE i \in errors : \A j \in errors : i <= j
        reached == {order[i] : i \in 1..Min2(stopped, n)}
        disconnected_clients == {c \in reached : send[c] = "ConnectionClosed"}
    IN  [raised    |-> errors # {},
         delivered |-> {c \in reached : send[c] = "sent"},
         clients   |-> IF errors # {} THEN clients
                       ELSE clients \ disconnected_clients]

\* add_websocket_client, from the live-tracking channel on connect
AddWebsocketClient ==
    /\ \E c \in Clients \ connected_clients :
          connected_clients' = connected_clients \cup {c}
    /\ UNCHANGED <<gps_positions, gps_last, faultVars, windowVars, authVars, routeVars,
                   rateVars, keyVars, usageVars, hookVars, rerouteVars, lateVars>>

\* remove_websocket_client, when the channel's handler ends
RemoveWebsocketClient ==
    /\ \E c \in connected_clients :
          connected_clients' = connected_clients \ {c}
    /\ UNCHANGED <<gps_positions, gps_last, faultVars, windowVars, authVars, routeVars,
                   rateVars, keyVars, usageVars, hookVars, rerouteVars, lateVars>>

\* ingest_gps_data: the row is committed, the vehicle status updated, the
\* update broadcast; an exception out of the broadcast is re-raised
IngestGpsData ==
    /\ gps_positions < MaxPositions
    /\ gps_positions' = gps_positions + 1
    /\ \E order \in IterationOrders(connected_clients),
          outcome \in [connected_clients -> SendOutcomes] :
          LET send == [c \in Clients |-> IF c \in connected_clients THEN outcome[c]
                                         ELSE NotConnected]
              b    == broadcast_position_update(connected_clients, order, send)
          IN  /\ connected_clients' = b.clients
              /\ gps_last' = [result        |-> IF b.raised THEN "raised" ELSE "returned",
                              send          |-> send,
                              delivered     |-> b.delivered,
                              clients_after |-> b.clients]
    /\ UNCHANGED <<faultVars, windowVars, authVars, routeVars, rateVars, keyVars,
                   usageVars, hookVars, rerouteVars, lateVars>>

GpsIdle ==
    /\ connected_clients = {}
    /\ gps_positions = 0
    /\ gps_last = NoIngest

(***************************************************************************)
(* API key authentication of a request (saas/middleware/auth_middleware.py) *)
(***************************************************************************)
\* client addresses
IPs == {"203.0.113.7", "198.51.100.9"}

\* APIKey.allowed_ips of the key presented: None or empty (no restriction),
\* or a list of addresses
AllowLists == {{}, {"203.0.113.7"}}

\* the proxy headers of a request: X-Forwarded-For as its comma-separated
\* entries (<<>> when missing or empty) and X-Real-IP ("" when missing or
\* empty)
Headers ==
    {[forwarded_for |-> <<>>, real_ip |-> ""]}
    \cup {[forwarded_for |-> <<a>>, real_ip |-> ""] : a \in IPs}
    \cup UNION {{[forwarded_for |-> <<a, b>>, real_ip |-> ""] : b \in IPs \ {a}} :
                   a \in IPs}
    \cup {[forwarded_for |-> <<>>, real_ip |-> a] : a \in IPs}
    \cup UNION {{[forwarded_for |-> <<a>>, real_ip |-> b] : b \in IPs \ {a}} :
                   a \in IPs}

NoAuth == [valid |-> FALSE, allowed_ips |-> {}, client_ip |-> "", host |-> "",
           outcome |-> "none"]

\* get_client_ip: X-Forwarded-For's first entry, else X-Real-IP, else the
\* socket address
get_client_ip(forwarded_for, real_ip, host) ==
    IF forwarded_for # <<>> THEN forwarded_for[1]
    ELSE IF real_ip # "" THEN real_ip
    ELSE host

\* "if allowed_ips and request.client.host not in allowed_ips": Forbidden
ip_forbidden(allowed_ips, host) == allowed_ips # {} /\ host \notin allowed_ips

\* authenticate_with_api_key for a request carrying an API key: validation,
\* the allow-list check, then the rate-limit check under the key's override
AuthenticateWithApiKey ==
    /\ fresh
    /\ \E valid \in BOOLEAN, allowed_ips \in AllowLists, headers \in Headers, host \in IPs :
          LET r    == check_rate_limit(rl_store, now, "free", <<OverrideLimit>>)
              seen == [valid |-> valid, allowed_ips |-> allowed_ips,
                       client_ip |-> get_client_ip(headers.forwarded_for,
                                                   headers.real_ip, host),
                       host |-> host, outcome |-> "none"]
          IN  IF ~valid
              THEN /\ auth_last' = [seen EXCEPT !.outcome = "401"]
                   /\ UNCHANGED <<rl_store, rl_last, fresh>>
              ELSE IF ip_forbidden(allowed_ips, host)
                   THEN /\ auth_last' = [seen EXCEPT !.outcome = "403"]
                        /\ UNCHANGED <<rl_store, rl_last, fresh>>
                   ELSE /\ rl_store' = r.store
                        /\ rl_last' = [allowed |-> r.allowed, remaining |-> r.remaining]
                        /\ fresh' = FALSE
                        /\ auth_last' = [seen EXCEPT !.outcome =
                                            IF r.allowed THEN "authenticated" ELSE "429"]
    /\ UNCHANGED <<now, backend, ep_start, ep_calls, faultVars, windowVars, gpsVars,
                   routeVars, keyVars, usageVars, hookVars, rerouteVars, lateVars>>

AuthIdle == auth_last = NoAuth

(***************************************************************************)
(* Route optimizer: the external API and its local fallback                *)
(* (services/route_optimizer.py)                                           *)
(***************************************************************************)
\* bound: stops handed to get_optimized_route
MaxOptStops == 3

\* coordinates, as positions on a line; the depot
OptPositions == 1..3

OptDepot == 0

\* what the POST to the external API comes to: a 200 with a solution whose
\* first route has activities, a 200 without routes, a 200 whose activities
\* cannot be parsed, another status code, an exception
ApiOutcomes == {"answer", "no_routes", "malformed", "status", "exception"}

NoOpt == [outcome |-> "none", stops |-> <<>>, result |-> <<>>]

StopLists == UNION {[1..n -> OptPositions] : n \in 0..MaxOptStops}

\* _haversine_distance
haversine_distance(p, q) == Abs(p - q)

\* the first index of unvisited whose stop is nearest ("if dist < nearest_dist")
NearestIdx(current_pos, stops, unvisited) ==
    LET best == CHOOSE i \in 1..Len(unvisited) :
                   /\ \A j \in 1..Len(unvisited) :
                         haversine_distance(current_pos, stops[unvisited[i]])
                            <= haversine_distance(current_pos, stops[unvisited[j]])
                   /\ \A j \in 1..(i - 1) :
                         haversine_distance(current_pos, stops[unvisited[j]])
                            > haversine_distance(current_pos, stops[unvisited[i]])
    IN  unvisited[best]

RECURSIVE NearestNeighbor(_, _, _)
NearestNeighbor(current_pos, stops, unvisited) ==
    IF unvisited = <<>> THEN <<>>
    ELSE LET nearest_idx == NearestIdx(current_pos, stops, unvisited)
             rest        == SelectSeq(unvisited, LAMBDA i : i # nearest_idx)
         IN  <<[stop_index |-> nearest_idx,
                distance   |-> haversine_distance(current_pos, stops[nearest_idx])]>>
             \o NearestNeighbor(stops[nearest_idx], stops, rest)

\* _fallback_route: nearest neighbour from the depot, then back to the depot
fallback_route(depot, stops) ==
    LET sequence == NearestNeighbor(depot, stops, [i \in 1..Len(stops) |-> i])
        last_pos == IF sequence = <<>> THEN depot
                    ELSE stops[sequence[Len(sequence)].stop_index]
    IN  <<[sequence       |-> sequence,
           total_distance |-> SumSeq([i \in 1..Len(sequence) |-> sequence[i].distance])
                              + (IF sequence = <<>> THEN 0
                                 ELSE haversine_distance(last_pos, depot)),
           optimized      |-> FALSE]>>

\* _parse_graphhopper_response: the service activities of the first route in
\* the order given; None when there is no route or parsing raises
parse_graphhopper_response(depot, stops, body, order) ==
    IF body = "answer"
    THEN <<[sequence       |-> [i \in 1..Len(order) |->
                                  [stop_index |-> order[i], distance |-> 0]],
            total_distance |-> 0,
            optimized      |-> TRUE]>>
    ELSE <<>>

\* _graphhopper_route
graphhopper_route(depot, stops, outcome, order) ==
    IF outcome \in {"status", "exception"}
    THEN fallback_route(depot, stops)
    ELSE parse_graphhopper_response(depot, stops, outcome, order)

\* get_optimized_route, with or without a configured API key
GetOptimizedRoute ==
    /\ \E stops \in StopLists, use_graphhopper \in BOOLEAN, outcome \in ApiOutcomes :
          \E order \in Perms(Len(stops)) :
             /\ ~use_graphhopper => outcome = "status"
             /\ outcome # "answer" => order = [i \in 1..Len(stops) |-> i]
             /\ opt_last' =
                   [outcome |-> IF use_graphhopper THEN outcome ELSE "no_key",
                    stops   |-> stops,
                    result  |-> IF use_graphhopper
                                THEN graphhopper_route(OptDepot, stops, outcome, order)
                                ELSE fallback_route(OptDepot, stops)]
    /\ UNCHANGED notOpt

OptIdle == opt_last = NoOpt

(***************************************************************************)
(* Fleet generator (services/fleet_generator.py)                           *)
(***************************************************************************)
\* bound: stops handed to generate_default_fleet
MaxFleetStops == 21

\* the special constraints found among the stops
NeededSets == {{}, {"Refrigerated"}, {"Refrigerated", "Frozen", "Hazmat", "Heavy"}}

\* constraints["required_truck_types"], <<>> when the key is absent
RequiredTruckTypes == {<<>>, <<"Dry">>, <<"Hazmat">>}

\* constraints["cost_optimization_targets"]["max_total_cost"] in dollars,
\* <<>> when there is no cost target
CostTargets == {Absent, <<100>>, <<500>>}

NoFleet == [stop_count |-> -1, needed |-> {}, required_truck_types |-> <<>>,
            max_total_cost |-> Absent, trucks |-> <<>>]

\* fleet_templates[size]["types"]; "count" is the length of the list
fleet_templates(size) ==
    CASE size = "small"       -> <<"Dry", "Refrigerated">>
      [] size = "medium"      -> <<"Dry", "Refrigerated", "Flatbed">>
      [] size = "large"       -> <<"Dry", "Refrigerated", "Flatbed", "Frozen">>
      [] size = "specialized" -> <<"Dry", "Refrigerated", "Flatbed", "Frozen", "Hazmat">>

\* _analyze_stop_requirements: required_types
required_types(needed) ==
    <<"Dry">>
    \o (IF "Refrigerated" \in needed THEN <<"Refrigerated">> ELSE <<>>)
    \o (IF "Frozen" \in needed THEN <<"Frozen">> ELSE <<>>)
    \o (IF "Hazmat" \in needed THEN <<"Hazmat">> ELSE <<>>)
    \o (IF "Heavy" \in needed THEN <<"Flatbed">> ELSE <<>>)

\* _determine_fleet_size: the statements after the returns are never reached
determine_fleet_size(stop_count) ==
    IF stop_count <= 5 THEN "small"
    ELSE IF stop_count <= 12 THEN "medium"
    ELSE IF stop_count <= 20 THEN "large"
    ELSE "specialized"

\* _optimize_truck_types: the required types, then the template's types not
\* yet included, cut to truck_count (the template has truck_count distinct
\* types, so no extra Dry truck is ever appended)
optimize_truck_types(required, template_types, truck_count) ==
    LET filled == required \o SelectSeq(template_types,
                                        LAMBDA t : t \notin Range(required))
    IN  SubSeq(filled, 1, truck_count)

\* _determine_cost_per_mile in cents, for a call with a cost target (x 0.9)
cost_per_mile(truck_type) ==
    CASE truck_type = "Dry"          -> 225
      [] truck_type = "Refrigerated" -> 288
      [] truck_type = "Frozen"       -> 342
      [] truck_type = "Hazmat"       -> 405
      [] truck_type = "Flatbed"      -> 252

\* _optimize_fleet_for_cost: the last truck is dropped when
\* target / estimate < 0.8 and there is more than one truck (the other
\* branch rescales cost_per_mile only)
optimize_fleet_for_cost(trucks, max_total_cost) ==
    LET estimate == SumSeq([i \in 1..Len(trucks) |-> cost_per_mile(trucks[i]) * 80])
        target   == max_total_cost * 100
    IN  IF estimate > target /\ target * 10 < 8 * estimate /\ Len(trucks) > 1
        THEN SubSeq(trucks, 1, Len(trucks) - 1)
        ELSE trucks

\* generate_default_fleet: the truck types of the fleet, in truck order
generate_default_fleet(stop_count, needed, required_truck_types, max_total_cost) ==
    LET template    == fleet_templates(determine_fleet_size(stop_count))
        truck_types == optimize_truck_types(required_types(needed), template,
                                            Len(template))
        kept        == SelectSeq(truck_types,
                                 LAMBDA t : t \in Range(required_truck_types))
        filtered    == IF required_truck_types = <<>> THEN truck_types
                       ELSE IF kept # <<>> THEN kept
                       ELSE SubSeq(required_truck_types, 1, 1)
    IN  IF max_total_cost = Absent THEN filtered
        ELSE optimize_fleet_for_cost(filtered, max_total_cost[1])

GenerateDefaultFleet ==
    /\ \E stop_count \in 0..MaxFleetStops, needed \in NeededSets,
          required \in RequiredTruckTypes, max_total_cost \in CostTargets :
          /\ Cardinality(needed) <= stop_count
          /\ fleet_last' = [stop_count |-> stop_count, needed |-> needed,
                            required_truck_types |-> required,
                            max_total_cost |-> max_total_cost,
                            trucks |-> generate_default_fleet(stop_count, needed,
                                                              required, max_total_cost)]
    /\ UNCHANGED notFleet

FleetIdle == fleet_last = NoFleet

(***************************************************************************)
(* Enterprise TMS connectors (app/enterprise_integrations.py)              *)
(***************************************************************************)
\* bound: stops of one route handed to sync_routes
MaxSyncStops == 3

\* create_integration: the supported platforms
Platforms == {"descartes", "sap_tm", "oracle_otm", "manhattan"}

\* the stop dictionaries of the routes
SyncStops == {[stop_id |-> 1, address |-> "a"], [stop_id |-> 2, address |-> "b"]}

SyncStopLists == UNION {[1..n -> SyncStops] : n \in 0..MaxSyncStops}

\* routes: no route, one route, or a route of at most one stop followed by
\* another route
SyncRouteLists ==
    {<<>>} \cup {<<r>> : r \in SyncStopLists}
           \cup {<<r, q>> : r \in {l \in SyncStopLists : Len(l) <= 1},
                            q \in SyncStopLists}

\* requests.post: status 200/201, another status, or an exception
PostOutcomes == {"ok", "refused", "exception"}

NoSync == [platform |-> "none", routes |-> <<>>, payload |-> <<>>, success |-> FALSE]

\* DescartesIntegration.sync_routes: "stops" of one route
descartes_stops(stops) ==
    [k \in 1..Len(stops) |-> [sequence |-> (k - 1) + 1,
                              address  |-> stops[k].address]]

\* SAPTMIntegration.sync_routes: "Stops" of one freight unit
sap_stops(stops) ==
    [k \in 1..Len(stops) |-> [StopUUID            |-> k - 1,
                              SequenceNumber      |-> (k - 1) + 1,
                              LocationDescription |-> stops[k].address]]

\* stop numbers as enumerate yields them, starting at 0
build_otm_stops_zero(stops) ==
    [k \in 1..Len(stops) |-> [StopNum      |-> k - 1,
                              LocationGid  |-> stops[k].stop_id,
                              LocationName |-> stops[k].address]]

\* OracleOTMIntegration._build_otm_xml: the ShipmentStop elements of one
\* Shipment, in document order
build_otm_stops(stops) ==
    [k \in 1..Len(stops) |-> [StopNum      |-> (k - 1) + 1,
                              LocationGid  |-> stops[k].stop_id,
                              LocationName |-> stops[k].address]]

\* ManhattanTMIntegration.sync_routes: "stops" of one route
manhattan_stops(stops) ==
    [k \in 1..Len(stops) |-> [stopNumber   |-> (k - 1) + 1,
                              addressLine1 |-> stops[k].address]]

\* the payload of a platform: one list of stop entries per route, in the
\* order of routes
sync_payload(platform, routes) ==
    [r \in 1..Len(routes) |->
        CASE platform = "descartes"  -> descartes_stops(routes[r])
          [] platform = "sap_tm"     -> sap_stops(routes[r])
          [] platform = "oracle_otm" -> build_otm_stops(routes[r])
          [] platform = "manhattan"  -> manhattan_stops(routes[r])]

\* sync_routes: the payload is built, then posted; an exception of the post
\* is caught and reported as success False
SyncRoutes ==
    /\ \E platform \in Platforms, routes \in SyncRouteLists,
          outcome \in PostOutcomes :
          sync_last' = [platform |-> platform, routes |-> routes,
                        payload  |-> sync_payload(platform, routes),
                        success  |-> outcome = "ok"]
    /\ UNCHANGED notSync

SyncIdle == sync_last = NoSync

(***************************************************************************)
(* Upgrade recommendation (saas/api/billing.py)                            *)
(***************************************************************************)
\* bound: the month's routes_generated, in 25ths of the monthly route limit
MaxUsageSteps == 30

\* tier_order of _get_next_tier and _get_previous_tier
tier_order == <<"free", "starter", "professional", "enterprise">>

NoRec == [tier |-> "none", routes_used |-> 0, routes_limit |-> 0,
          recommendations |-> <<>>]

\* tier_order.index(current_tier)
tier_index(current_tier) ==
    CHOOSE i \in 1..Len(tier_order) : tier_order[i] = current_tier

\* always the highest tier
get_next_tier_top(current_tier) ==
    IF current_tier \notin Range(tier_order) THEN <<>>
    ELSE IF tier_index(current_tier) < Len(tier_order)
         THEN <<tier_order[Len(tier_order)]>>
         ELSE <<>>

\* _get_next_tier: <<>> is None
get_next_tier(current_tier) ==
    IF current_tier \notin Range(tier_order) THEN <<>>
    ELSE IF tier_index(current_tier) < Len(tier_order)
         THEN <<tier_order[tier_index(current_tier) + 1]>>
         ELSE <<>>

\* _get_previous_tier: <<>> is None
get_previous_tier(current_tier) ==
    IF current_tier \notin Range(tier_order) THEN <<>>
    ELSE IF tier_index(current_tier) > 1
         THEN <<tier_order[tier_index(current_tier) - 1]>>
         ELSE <<>>

\* get_upgrade_recommendation: usage_percentage is
\* min(routes_used / routes_limit * 100, 100), or 0 without a positive limit;
\* the comparisons with 80, 95 and 20 are made on routes_used * 100
get_upgrade_recommendation(current_tier, routes_used, routes_limit) ==
    LET scaled == IF routes_limit > 0 THEN routes_used * 100 ELSE 0
        limit  == IF routes_limit > 0 THEN routes_limit ELSE 1
    IN  IF scaled > 80 * limit
        THEN IF get_next_tier(current_tier) # <<>>
             THEN <<[type    |-> "upgrade",
                     tier    |-> get_next_tier(current_tier)[1],
                     urgency |-> IF scaled > 95 * limit THEN "high" ELSE "medium"]>>
             ELSE <<>>
        ELSE IF scaled < 20 * limit /\ current_tier # "free"
        THEN IF get_previous_tier(current_tier) # <<>>
             THEN <<[type    |-> "downgrade",
                     tier    |-> get_previous_tier(current_tier)[1],
                     urgency |-> "low"]>>
             ELSE <<>>
        ELSE <<>>

GetUpgradeRecommendation ==
    /\ \E current_tier \in Range(tier_order), k \in 0..MaxUsageSteps :
          LET routes_limit == SUBSCRIPTION_TIERS(current_tier)
              routes_used  == (k * routes_limit) \div 25
          IN  rec_last' = [tier |-> current_tier, routes_used |-> routes_used,
                           routes_limit |-> routes_limit,
                           recommendations |->
                              get_upgrade_recommendation(current_tier, routes_used,
                                                         routes_limit)]
    /\ UNCHANGED notRec

RecIdle == rec_last = NoRec

(***************************************************************************)
(* Concurrent check_rate_limit calls for one identifier                    *)
(* (saas/middleware/rate_limiting.py)                                      *)
(***************************************************************************)
\* bounds: the clock of the concurrent calls and the number of calls
MaxConcClock == 10

MaxConcCalls == 4

\* the worker processes serving the identifier
Workers == {"w1", "w2"}

\* the limit of the identifier's key
ConcLimit == get_rate_limit("free", <<OverrideLimit>>)

\* the pipeline of _redis_rate_limit, executed as one transaction:
\* ZREMRANGEBYSCORE key 0 now-window; ZCARD; ZADD key {str(now): now}; EXPIRE
redis_pipeline(zset, t, limit, window) ==
    LET kept          == {x \in zset : ~(x <= t - window)}
        current_count == Cardinality(kept)
    IN  [zset |-> kept \cup {t}, allowed |-> current_count < limit]

\* _memory_rate_limit on the list of one process; the method has no await,
\* so the event loop runs it as one step
memory_rate_limit_list(requests, t, limit, window) ==
    LET kept          == SelectSeq(requests, LAMBDA x : x > t - window)
        current_count == Len(kept)
        allowed       == current_count < limit
    IN  [requests |-> IF allowed THEN Append(kept, t) ELSE kept,
         allowed  |-> allowed]

\* now = time.time()
ConcBegin(w) ==
    /\ cr_pc[w] = "idle"
    /\ cr_calls < MaxConcCalls
    /\ cr_calls' = cr_calls + 1
    /\ cr_now' = [cr_now EXCEPT ![w] = cr_clock]
    /\ cr_pc' = [cr_pc EXCEPT ![w] = "check"]
    /\ UNCHANGED <<cr_clock, cr_zset, cr_memory, cr_admitted, notConc>>

\* pipeline.execute() and the admission test
ConcPipeline(w) ==
    /\ cr_pc[w] = "check"
    /\ backend = "redis"
    /\ LET r == redis_pipeline(cr_zset, cr_now[w], ConcLimit, WindowDuration)
       IN  /\ cr_zset' = r.zset
           /\ cr_pc' = [cr_pc EXCEPT ![w] = IF r.allowed THEN "idle" ELSE "zrem"]
           /\ cr_admitted' = IF r.allowed THEN Append(cr_admitted, cr_now[w])
                             ELSE cr_admitted
    /\ UNCHANGED <<cr_clock, cr_now, cr_memory, cr_calls, notConc>>

\* the rejected call removes the member it added: ZREM key str(now)
ConcZrem(w) ==
    /\ cr_pc[w] = "zrem"
    /\ cr_zset' = cr_zset \ {cr_now[w]}
    /\ cr_pc' = [cr_pc EXCEPT ![w] = "idle"]
    /\ UNCHANGED <<cr_clock, cr_now, cr_memory, cr_calls, cr_admitted, notConc>>

\* without a Redis client each process keeps its own list
ConcMemory(w) ==
    /\ cr_pc[w] = "check"
    /\ backend = "memory"
    /\ LET r == memory_rate_limit_list(cr_memory[w], cr_now[w], ConcLimit,
                                       WindowDuration)
       IN  /\ cr_memory' = [cr_memory EXCEPT ![w] = r.requests]
           /\ cr_admitted' = IF r.allowed THEN Append(cr_admitted, cr_now[w])
                             ELSE cr_admitted
    /\ cr_pc' = [cr_pc EXCEPT ![w] = "idle"]
    /\ UNCHANGED <<cr_clock, cr_now, cr_zset, cr_calls, notConc>>

ConcTick ==
    /\ cr_clock + ClockStep <= MaxConcClock
    /\ cr_clock' = cr_clock + ClockStep
    /\ UNCHANGED <<cr_pc, cr_now, cr_zset, cr_memory, cr_calls, cr_admitted, notConc>>

ConcIdle ==
    /\ cr_clock = 0
    /\ cr_pc = [w \in Workers |-> "idle"]
    /\ cr_now = [w \in Workers |-> 0]
    /\ cr_zset = {}
    /\ cr_memory = [w \in Workers |-> <<>>]
    /\ cr_calls = 0
    /\ cr_admitted = <<>>

(***************************************************************************)
(* Concurrent create_api_key requests of one user (saas/auth/api_keys.py)  *)
(***************************************************************************)
\* create_api_key up to the count query: the request holds existing_keys,
\* the number of active keys committed at that moment
CreateCount(w) ==
    /\ ck_pc[w] = "idle"
    /\ ck_existing' = [ck_existing EXCEPT ![w] = ck_active]
    /\ ck_pc' = [ck_pc EXCEPT ![w] = "counted"]
    /\ UNCHANGED <<ck_active, ck_answer, notRace>>

\* the rest of create_api_key: 400 when the count had reached the maximum,
\* otherwise db.add and db.commit of the new row
CreateInsert(w) ==
    /\ ck_pc[w] = "counted"
    /\ IF ck_existing[w] >= MaxActiveKeys
       THEN /\ ck_answer' = [ck_answer EXCEPT ![w] = "400"]
            /\ UNCHANGED ck_active
       ELSE /\ ck_active' = ck_active + 1
            /\ ck_answer' = [ck_answer EXCEPT ![w] = "created"]
    /\ ck_pc' = [ck_pc EXCEPT ![w] = "idle"]
    /\ UNCHANGED <<ck_existing, notRace>>

\* revoke_api_key of one of the user's active keys
RaceRevoke ==
    /\ ck_active > 0
    /\ ck_active' = ck_active - 1
    /\ UNCHANGED <<ck_pc, ck_existing, ck_answer, notRace>>

RaceIdle ==
    /\ ck_pc = [w \in Workers |-> "idle"]
    /\ ck_existing = [w \in Workers |-> 0]
    /\ ck_active = 0
    /\ ck_answer = [w \in Workers |-> "none"]

(***************************************************************************)
(* The Subscription row under provisioning, webhook events and cancel      *)
(* calls (saas/middleware/auth_middleware.py, saas/api/webhooks.py,        *)
(* saas/billing/stripe_service.py)                                         *)
(***************************************************************************)
\* create_user_from_firebase: monthly_route_limit of the default subscription
DefaultRouteLimit == 10

\* the keys of SUBSCRIPTION_TIERS, in the order of the dictionary
TierKeys == <<"free", "starter", "professional", "enterprise">>

\* SUBSCRIPTION_TIERS[tier].get("stripe_price_id"): "none" is None, also
\* for the enterprise entry, which has no such key
stripe_price_id(tier) ==
    CASE tier = "free"         -> "none"
      [] tier = "starter"      -> "price_starter_monthly"
      [] tier = "professional" -> "price_professional_monthly"
      [] tier = "enterprise"   -> "none"

\* customer and subscription ids that events carry ("none": no id)
CustomerIds == {"cus_1", "cus_2"}

SubscriptionIds == {"none", "sub_1"}

\* metadata["tier"] of a checkout session ("none": no such entry)
MetadataTiers == {"none", "starter", "professional", "enterprise", "gold"}

\* the price id of the first line of an invoice ("none": the line has none,
\* "no_line": the invoice has no line)
InvoicePrices == {"no_line", "none", "price_starter_monthly",
                  "price_professional_monthly", "price_other"}

\* status of a customer.subscription.created / updated event
EventStatuses == {"active", "past_due", "trialing"}

NoEvent == [type |-> "none", result |-> TRUE]

\* create_user_from_firebase: the default subscription
default_subscription ==
    [tier |-> "free", status |-> "active", monthly_route_limit |-> DefaultRouteLimit,
     stripe_customer_id |-> "none", stripe_subscription_id |-> "none"]

\* the free-tier reset shared by cancel_subscription(immediate=True),
\* handle_subscription_deleted and handle_customer_deleted
reset_to_free(row) ==
    [row EXCEPT !.tier = "free", !.status = "canceled",
                !.monthly_route_limit = SUBSCRIPTION_TIERS("free")]

\* the tier is taken from the metadata, the limit is left as it was
handle_checkout_completed_tier_only(row, customer_id, subscription_id, tier) ==
    LET linked == [row EXCEPT !.stripe_customer_id = customer_id,
                              !.stripe_subscription_id =
                                 IF subscription_id # "none" THEN subscription_id
                                 ELSE @]
    IN  IF tier \in Range(TierKeys)
        THEN [linked EXCEPT !.tier = tier, !.status = "active"]
        ELSE linked

\* handle_checkout_completed, past the metadata and user checks
handle_checkout_completed(row, customer_id, subscription_id, tier) ==
    LET linked == [row EXCEPT !.stripe_customer_id = customer_id,
                              !.stripe_subscription_id =
                                 IF subscription_id # "none" THEN subscription_id
                                 ELSE @]
    IN  IF tier \in Range(TierKeys)
        THEN [linked EXCEPT !.tier = tier, !.status = "active",
                            !.monthly_route_limit = SUBSCRIPTION_TIERS(tier)]
        ELSE linked

\* update_subscription_tier_from_invoice: the first tier of SUBSCRIPTION_TIERS
\* whose stripe_price_id equals the line's price id
update_subscription_tier_from_invoice(row, price_id) ==
    LET matching == {i \in 1..Len(TierKeys) : stripe_price_id(TierKeys[i]) = price_id}
    IN  IF price_id = "no_line" \/ matching = {} THEN row
        ELSE LET tier == TierKeys[CHOOSE i \in matching : \A j \in matching : i <= j]
             IN  [row EXCEPT !.tier = tier,
                             !.monthly_route_limit = SUBSCRIPTION_TIERS(tier)]

\* create_user_from_firebase
ProvisionUser ==
    /\ sub_row = <<>>
    /\ sub_row' = <<default_subscription>>
    /\ sub_event' = [type |-> "provision", result |-> TRUE]
    /\ UNCHANGED notTier

\* checkout.session.completed
CheckoutCompleted ==
    /\ \E customer_id \in CustomerIds, subscription_id \in SubscriptionIds,
          tier \in MetadataTiers :
          IF tier = "none"
          THEN /\ sub_event' = [type |-> "checkout.session.completed", result |-> TRUE]
               /\ UNCHANGED sub_row
          ELSE IF sub_row = <<>>
          THEN /\ sub_event' = [type |-> "checkout.session.completed", result |-> FALSE]
               /\ UNCHANGED sub_row
          ELSE /\ sub_row' = <<handle_checkout_completed(sub_row[1], customer_id,
                                                         subscription_id, tier)>>
               /\ sub_event' = [type |-> "checkout.session.completed", result |-> TRUE]
    /\ UNCHANGED notTier

\* customer.created with the user's id in the metadata
CustomerCreated ==
    /\ \E customer_id \in CustomerIds :
          sub_row' = IF sub_row = <<>> THEN sub_row
                     ELSE <<[sub_row[1] EXCEPT !.stripe_customer_id = customer_id]>>
    /\ sub_event' = [type |-> "customer.created", result |-> TRUE]
    /\ UNCHANGED notTier

\* customer.deleted
CustomerDeleted ==
    /\ \E customer_id \in CustomerIds :
          sub_row' = IF sub_row # <<>> /\ sub_row[1].stripe_customer_id = customer_id
                     THEN <<[reset_to_free(sub_row[1]) EXCEPT
                                !.stripe_customer_id = "none",
                                !.stripe_subscription_id = "none"]>>
                     ELSE sub_row
    /\ sub_event' = [type |-> "customer.deleted", result |-> TRUE]
    /\ UNCHANGED notTier

\* customer.subscription.created (with the user's id in the metadata) and
\* customer.subscription.updated
SubscriptionEvent ==
    /\ \E type \in {"customer.subscription.created", "customer.subscription.updated"},
          id \in SubscriptionIds \ {"none"}, st \in EventStatuses :
          LET found == /\ sub_row # <<>>
                       /\ type = "customer.subscription.updated"
                             => sub_row[1].stripe_subscription_id = id
          IN  /\ sub_row' = IF found
                            THEN <<[sub_row[1] EXCEPT !.stripe_subscription_id = id,
                                                      !.status = st]>>
                            ELSE sub_row
              /\ sub_event' = [type |-> type, result |-> found]
    /\ UNCHANGED notTier

\* customer.subscription.deleted
SubscriptionDeleted ==
    /\ \E id \in SubscriptionIds \ {"none"} :
          LET found == sub_row # <<>> /\ sub_row[1].stripe_subscription_id = id
          IN  /\ sub_row' = IF found THEN <<reset_to_free(sub_row[1])>> ELSE sub_row
              /\ sub_event' = [type |-> "customer.subscription.deleted",
                               result |-> found]
    /\ UNCHANGED notTier

\* invoice.payment_succeeded
InvoicePaymentSucceeded ==
    /\ \E customer_id \in CustomerIds, subscription_id \in SubscriptionIds,
          price_id \in InvoicePrices :
          sub_row' =
             IF sub_row # <<>> /\ sub_row[1].stripe_customer_id = customer_id
             THEN LET active == [sub_row[1] EXCEPT !.status = "active"]
                  IN  IF subscription_id # "none"
                      THEN <<update_subscription_tier_from_invoice(active, price_id)>>
                      ELSE <<active>>
             ELSE sub_row
    /\ sub_event' = [type |-> "invoice.payment_succeeded", result |-> TRUE]
    /\ UNCHANGED notTier

\* invoice.payment_failed
InvoicePaymentFailed ==
    /\ \E customer_id \in CustomerIds :
          sub_row' =
             IF sub_row # <<>> /\ sub_row[1].stripe_customer_id = customer_id
             THEN <<[sub_row[1] EXCEPT !.status = "past_due"]>>
             ELSE sub_row
    /\ sub_event' = [type |-> "invoice.payment_failed", result |-> TRUE]
    /\ UNCHANGED notTier

\* StripeService.cancel_subscription: 404 without a subscription row
CancelSubscription ==
    /\ \E immediate \in BOOLEAN :
          IF sub_row = <<>>
          THEN /\ sub_event' = [type |-> "cancel", result |-> FALSE]
               /\ UNCHANGED sub_row
          ELSE /\ sub_row' = IF immediate THEN <<reset_to_free(sub_row[1])>>
                             ELSE sub_row
               /\ sub_event' = [type |-> "cancel", result |-> TRUE]
    /\ UNCHANGED notTier

TierIdle ==
    /\ sub_row = <<>>
    /\ sub_event = NoEvent

(***************************************************************************)
(* The live broadcast, one send at a time, while subscribers come and go   *)
(* (services/gps_tracking.py, app/gps_routes.py)                           *)
(***************************************************************************)
\* next() of the set iterator of "for client in self.connected_clients":
\* RuntimeError ("Set changed size during iteration") when the set's size is
\* not the one it had when the loop began, the end of the loop when nothing
\* is left, otherwise the next client
iterator_next(clients, used, todo) ==
    IF Cardinality(clients) # used THEN "RuntimeError"
    ELSE IF todo = <<>> THEN "StopIteration"
    ELSE "client"

\* ingest_gps_data up to the first send of _broadcast_position_update (the
\* call returns at once when nobody is connected)
BroadcastBegin ==
    /\ bc_pc = "idle"
    /\ bc_start' = bc_clients
    /\ bc_churn' = {}
    /\ bc_delivered' = {}
    /\ bc_closed' = {}
    /\ bc_used' = Cardinality(bc_clients)
    /\ IF bc_clients = {}
       THEN /\ bc_result' = "returned"
            /\ UNCHANGED <<bc_pc, bc_current, bc_todo>>
       ELSE \E order \in IterationOrders(bc_clients) :
               /\ bc_pc' = "awaiting"
               /\ bc_current' = Head(order)
               /\ bc_todo' = Tail(order)
               /\ bc_result' = "none"
    /\ UNCHANGED <<bc_clients, notBc>>

\* "await client.send(...)" ends, returning or raising ConnectionClosed
\* for a client that has gone; then the loop asks its iterator for the next
\* client
BroadcastSendDone ==
    /\ bc_pc = "awaiting"
    /\ LET sent   == bc_current \in bc_clients
           closed == IF sent THEN bc_closed ELSE bc_closed \cup {bc_current}
           next   == iterator_next(bc_clients, bc_used, bc_todo)
       IN  /\ bc_delivered' = IF sent THEN bc_delivered \cup {bc_current}
                              ELSE bc_delivered
           /\ bc_closed' = closed
           /\ CASE next = "RuntimeError" ->
                     /\ bc_pc' = "idle"
                     /\ bc_result' = "raised"
                     /\ UNCHANGED <<bc_clients, bc_current, bc_todo>>
                [] next = "StopIteration" ->
                     /\ bc_pc' = "idle"
                     /\ bc_result' = "returned"
                     /\ bc_clients' = bc_clients \ closed
                     /\ UNCHANGED <<bc_current, bc_todo>>
                [] next = "client" ->
                     /\ bc_current' = Head(bc_todo)
                     /\ bc_todo' = Tail(bc_todo)
                     /\ UNCHANGED <<bc_pc, bc_result, bc_clients>>
    /\ UNCHANGED <<bc_used, bc_start, bc_churn, notBc>>

\* websocket_live_tracking on connect: add_websocket_client; it runs between
\* broadcasts or while a send is awaited, and the iterator of a running
\* loop may or may not come across the new entry
SubscriberConnects ==
    /\ \E c \in Clients \ bc_clients :
          /\ bc_clients' = bc_clients \cup {c}
          /\ bc_churn' = IF bc_pc = "awaiting" THEN bc_churn \cup {c} ELSE bc_churn
          /\ \/ UNCHANGED bc_todo
             \/ bc_pc = "awaiting" /\ bc_todo' = Append(bc_todo, c)
    /\ UNCHANGED <<bc_pc, bc_used, bc_current, bc_closed, bc_start, bc_delivered,
                   bc_result, notBc>>

\* websocket_live_tracking when the connection ends: remove_websocket_client
SubscriberDisconnects ==
    /\ \E c \in bc_clients :
          /\ bc_clients' = bc_clients \ {c}
          /\ bc_churn' = IF bc_pc = "awaiting" THEN bc_churn \cup {c} ELSE bc_churn
          /\ bc_todo' = SelectSeq(bc_todo, LAMBDA x : x # c)
    /\ UNCHANGED <<bc_pc, bc_used, bc_current, bc_closed, bc_start, bc_delivered,
                   bc_result, notBc>>

BcIdle ==
    /\ bc_clients = {}
    /\ bc_pc = "idle"
    /\ bc_used = 0
    /\ bc_current = NotConnected
    /\ bc_todo = <<>>
    /\ bc_closed = {}
    /\ bc_start = {}
    /\ bc_churn = {}
    /\ bc_delivered = {}
    /\ bc_result = "none"

LateIdle == OptIdle /\ FleetIdle /\ SyncIdle /\ RecIdle /\ ConcIdle /\ RaceIdle /\ TierIdle /\ BcIdle

\* the subsystems above, before their first operation
AuxIdle == FaultIdle /\ WindowIdle /\ GpsIdle /\ AuthIdle /\ LateIdle

(***************************************************************************)
(* Specifications                                                          *)
(***************************************************************************)
RouteInit == RouteIdle /\ RateIdle /\ backend = "memory" /\ KeysIdle /\ UsageIdle /\ HookIdle
    /\ RerouteIdle /\ AuxIdle

RouteNext == Submit \/ RouteNextTruck

SpecRoute == RouteInit /\ [][RouteNext]_vars

RateInit ==
    RouteIdle /\ RateIdle /\ backend \in {"redis", "memory"} /\ KeysIdle /\ UsageIdle /\ HookIdle
    /\ RerouteIdle /\ AuxIdle

RateNext == CheckRateLimit \/ Tick

SpecRate == RateInit /\ [][RateNext]_vars

KeysInit == RouteIdle /\ RateIdle /\ backend = "memory" /\ KeysIdle /\ UsageIdle /\ HookIdle
    /\ RerouteIdle /\ AuxIdle

KeysNext ==
    \/ CreateApiKey
    \/ ValidateApiKey
    \/ RevokeApiKey
    \/ DeleteUserAccount
    \/ UpdateUserStatus
    \/ CleanupExpiredKeys
    \/ KeyTick

SpecKeys == KeysInit /\ [][KeysNext]_vars

UsageInit ==
    RouteIdle /\ RateIdle /\ backend = "memory" /\ KeysIdle /\ UsageStart /\ HookIdle
    /\ RerouteIdle /\ AuxIdle

UsageNext == RecordRouteUsage \/ CheckUsageLimits \/ UsageCacheExpire

SpecUsage == UsageInit /\ [][UsageNext]_vars

HookInit ==
    RouteIdle /\ RateIdle /\ backend = "memory" /\ KeysIdle /\ UsageStart /\ HookIdle
    /\ RerouteIdle /\ AuxIdle

HookNext == StripeWebhook

SpecHook == HookInit /\ [][HookNext]_vars

RerouteInit ==
    RouteIdle /\ RateIdle /\ backend = "memory" /\ KeysIdle /\ UsageIdle /\ HookIdle
    /\ RerouteIdle /\ AuxIdle

RerouteNext == RerouteStart \/ RouteNextTruck \/ RerouteMerge

SpecReroute == RerouteInit /\ [][RerouteNext]_vars

QuotaInit == KeysInit

QuotaNext ==
    \/ QuotaCreateApiKey
    \/ QuotaRevokeApiKey
    \/ CleanupExpiredKeys
    \/ KeyTick

SpecQuota == QuotaInit /\ [][QuotaNext]_vars

GpsInit == RouteInit

GpsNext == AddWebsocketClient \/ RemoveWebsocketClient \/ IngestGpsData

SpecGps == GpsInit /\ [][GpsNext]_vars

AuthInit == RateInit

AuthNext == AuthenticateWithApiKey \/ Tick

SpecAuth == AuthInit /\ [][AuthNext]_vars

OptInit == RouteInit

OptNext == GetOptimizedRoute

SpecOpt == OptInit /\ [][OptNext]_vars

FleetInit == RouteInit

FleetNext == GenerateDefaultFleet

SpecFleet == FleetInit /\ [][FleetNext]_vars

SyncInit == RouteInit

SyncNext == SyncRoutes

SpecSync == SyncInit /\ [][SyncNext]_vars

RecInit == RouteInit

RecNext == GetUpgradeRecommendation

SpecRec == RecInit /\ [][RecNext]_vars

ConcInit == RateInit

ConcNext ==
    \/ \E w \in Workers : ConcBegin(w)
    \/ \E w \in Workers : ConcPipeline(w)
    \/ \E w \in Workers : ConcZrem(w)
    \/ \E w \in Workers : ConcMemory(w)
    \/ ConcTick

SpecConc == ConcInit /\ [][ConcNext]_vars

RaceInit == RouteInit

RaceNext ==
    \/ \E w \in Workers : CreateCount(w)
    \/ \E w \in Workers : CreateInsert(w)
    \/ RaceRevoke

SpecRace == RaceInit /\ [][RaceNext]_vars

TierInit == RouteInit

TierNext ==
    \/ ProvisionUser
    \/ CheckoutCompleted
    \/ CustomerCreated
    \/ CustomerDeleted
    \/ SubscriptionEvent
    \/ SubscriptionDeleted
    \/ InvoicePaymentSucceeded
    \/ InvoicePaymentFailed
    \/ CancelSubscription

SpecTier == TierInit /\ [][TierNext]_vars

BcInit == RouteInit

BcNext ==
    \/ BroadcastBegin
    \/ BroadcastSendDone
    \/ SubscriberConnects
    \/ SubscriberDisconnects

SpecBc == BcInit /\ [][BcNext]_vars

WindowInit == RateInit

WindowNext == CheckRateLimitOverride \/ Tick

SpecWindow == WindowInit /\ [][WindowNext]_vars

\* the two limiters share no state: a behaviour exercises one of them
FaultInit ==
    /\ RouteIdle /\ RateIdle /\ KeysIdle /\ HookIdle /\ RerouteIdle /\ WindowIdle
    /\ GpsIdle /\ AuthIdle /\ LateIdle
    /\ fc_last = NoCheck
    /\ \/ fault_scope = "rate" /\ backend \in {"redis", "memory"} /\ UsageIdle
       \/ fault_scope = "usage" /\ backend = "memory" /\ UsageStart

FaultNext ==
    \/ RateCheckUnderFault
    \/ FaultTick
    \/ GuardUnderFault
    \/ ServiceCheckUnderFault
    \/ FaultRecordUsage
    \/ FaultCacheExpire

SpecFault == FaultInit /\ [][FaultNext]_vars

(***************************************************************************)
(* Properties of the routing engine                                        *)
(***************************************************************************)
TruckOf(id) == CHOOSE t \in Range(req.trucks) : t.truck_id = id

StopOf(id) == CHOOSE s \in Range(req.stops) : s.stop_id = id

RouteLoad(route) == SumSeq([i \in 1..Len(route.stops) |-> route.stops[i].pallets])

\* C1: for every TruckRoute the engine has computed, by the solver path or by
\* the greedy fallback, the pallets of its stops sum to at most the owning
\* truck's max_pallets.
C1_CapacityInvariant ==
    \A i \in 1..Len(truck_routes) :
       RouteLoad(truck_routes[i]) <= TruckOf(truck_routes[i].truck_id).max_pallets

\* a returned route that carries two stops and fills its truck exactly, while
\* the request's stops together would not fit the smaller truck
C1_Witness ==
    /\ pc = "done"
    /\ \E i \in 1..Len(truck_routes) :
          /\ Len(truck_routes[i].stops) = 2
          /\ RouteLoad(truck_routes[i]) = TruckOf(truck_routes[i].truck_id).max_pallets
    /\ \E t \in Range(req.trucks) :
          SumSeq([i \in 1..Len(req.stops) |-> req.stops[i].pallets]) > t.max_pallets

\* C2: in every route of the engine no Hazmat stop rides on a truck that is
\* not a Hazmat truck, and no Frozen stop rides on a Dry or Flatbed truck.
C2_CompatibilityInvariant ==
    \A i \in 1..Len(truck_routes) :
       \A k \in 1..Len(truck_routes[i].stops) :
          LET stop  == StopOf(truck_routes[i].stops[k].stop_id)
              truck == TruckOf(truck_routes[i].truck_id)
          IN  /\ stop.special_constraint = "Hazmat" => truck.truck_type = "Hazmat"
              /\ stop.special_constraint = "Frozen" =>
                    truck.truck_type \notin {"Dry", "Flatbed"}

\* a returned routing in which a Hazmat stop rides on the Hazmat truck while
\* the other truck is a Dry truck or a Flatbed, and the request's Frozen stop,
\* for which there is no Frozen or other admissible truck, is in no route
C2_Witness ==
    /\ pc = "done"
    /\ \E i \in 1..Len(truck_routes) :
          \E k \in 1..Len(truck_routes[i].stops) :
             StopOf(truck_routes[i].stops[k].stop_id).special_constraint = "Hazmat"
    /\ \E t \in Range(req.trucks) : t.truck_type \in {"Dry", "Flatbed"}
    /\ \E s \in Range(req.stops) :
          /\ s.special_constraint = "Frozen"
          /\ s.stop_id \notin assigned_stops

\* C3: every RouteStop of a route of the engine has its arrival_time inside
\* the stop's window [time_window_start, time_window_end].
C3_TimeWindowFeasibility ==
    \A i \in 1..Len(truck_routes) :
       \A k \in 1..Len(truck_routes[i].stops) :
          LET rs   == truck_routes[i].stops[k]
              stop == StopOf(rs.stop_id)
          IN  stop.window[1] <= rs.arrival_time /\ rs.arrival_time <= stop.window[2]

(***************************************************************************)
(* Properties of the rate limiter                                          *)
(***************************************************************************)
\* C4: on the free tier (limit 10, window 60 s), counting the calls from one
\* made when the identifier has no timestamp in the window, the 1st to the
\* 10th call inside that window are admitted with remaining 9, 8, ..., 0,
\* and the 11th call inside the window is rejected with remaining 0.
C4_FreeTierWindow ==
    ep_calls >= 1 =>
       /\ ep_calls <= 10 => rl_last.allowed /\ rl_last.remaining = 10 - ep_calls
       /\ ep_calls = 11 => ~rl_last.allowed /\ rl_last.remaining = 0

\* the 11th call inside the window has just been rejected by the Redis path
C4_Witness ==
    /\ backend = "redis"
    /\ ep_calls = 11
    /\ now < ep_start + WindowDuration
    /\ Cardinality(rl_store) = 10
    /\ ~rl_last.allowed

(***************************************************************************)
(* Properties of the API key manager                                       *)
(***************************************************************************)
\* C5: a validate that immediately follows the create which returned its
\* secret succeeds and returns the creating user's user_id; and a validate
\* with the secret of a key that revoke has been applied to fails, whatever
\* happened in between.
C5_KeyLifecycle ==
    key_last.op = "validate" =>
       /\ (/\ key_prev.op = "create"
           /\ key_prev.result = "created"
           /\ key_prev.secret = key_last.secret) => key_last.result = key_prev.user
       /\ key_last.secret \in revoked => key_last.result = None

(***************************************************************************)
(* Properties of the usage guard                                           *)
(***************************************************************************)
\* C6: whenever check_usage_limits has answered a request of a user whose
\* routes_generated of the current month, as recorded by the usage service,
\* has reached the subscription's monthly_route_limit, the answer is the
\* PaymentRequired error (402).
C6_UsageGuardRejects ==
    (/\ guard_last # None
     /\ subscription # Absent
     /\ ~usage_service_allowed) => guard_last = "402"

(***************************************************************************)
(* Properties of the Stripe webhook endpoint                               *)
(***************************************************************************)
\* C7: a request without a signature header, or with a signature that fails
\* verification, is answered with the InvalidInput error (400) and is not
\* acknowledged as a received event.
C7_BadSignatureRejected ==
    wh_request.signature \in {"missing", "invalid"} =>
       wh_response.status_code = 400 /\ ~wh_response.received

\* C8: once a verified event has been delivered twice under the same event
\* id, there are two WebhookLog rows for that id.
C8_ReplayPersistsSecondRow ==
    \A id \in EventIds : deliveries[id] >= 2 => Cardinality(RowsOf(id)) >= 2

\* C8 as the code has it: a verified event id has exactly one WebhookLog row
\* however often it is delivered; the repeated delivery is acknowledged with
\* processed = false and an error, and leaves the row of the first delivery
\* with its single processing attempt.
C8_ReplayDeduplicated ==
    /\ \A id \in EventIds :
          /\ Cardinality(RowsOf(id)) = (IF deliveries[id] >= 1 THEN 1 ELSE 0)
          /\ \A i \in RowsOf(id) : webhook_logs[i].processing_attempts = 1
    /\ (wh_request.signature = "valid" /\ deliveries[wh_request.id] >= 2) =>
          /\ wh_response.status_code = 200
          /\ wh_response.received
          /\ ~wh_response.processed
          /\ wh_response.error = "IntegrityError"

\* a verified event has just been delivered for the second time
C8_Witness ==
    /\ wh_request.signature = "valid"
    /\ deliveries[wh_request.id] = 2
    /\ Cardinality(RowsOf(wh_request.id)) = 1
    /\ wh_response.error = "IntegrityError"

(***************************************************************************)
(* Properties of live re-routing                                           *)
(***************************************************************************)
Unaffected(routes) == SelectSeq(routes, LAMBDA r : r.truck_id \notin affected_trucks)

\* C9: the trucks handed to the routing engine are all marked affected, and
\* once the request is answered the routes of the response that belong to
\* the other trucks are their original routes, each unchanged and in order.
C9_UnaffectedRoutesKept ==
    /\ rr_pc # "idle" =>
          \A i \in 1..Len(req.trucks) : req.trucks[i].truck_id \in affected_trucks
    /\ rr_pc = "answered" =>
          Unaffected(rr_response.routes) = Unaffected(rr_request.original_routes)

HoldersOf(id) ==
    {i \in 1..Len(rr_request.original_routes) :
        HasStop(rr_request.original_routes[i], id)}

CancelledId == rr_request.changes.cancel_stop[1].stop_id

\* what the claim says of a cancel_stop for the stop id, held by route i only
CancelOutcome(id, i) ==
    LET r == rr_request.original_routes[i]
    IN  /\ \A k \in 1..Len(cancel_effect.stops) : cancel_effect.stops[k].stop_id # id
        /\ cancel_effect.affected = {r.truck_id}
        /\ \E n \in 1..Len(cancel_effect.log) :
              cancel_effect.log[n] =
                 LogLine("freed", r.truck_id, id,
                         FormatMiles(FirstRouteStop(r, id).distance_from_previous))

\* C10: a cancel_stop change for a stop that is in exactly one original route
\* removes the stop from the modified stops, marks that route's truck and no
\* other truck affected, and logs the miles saved from the removed leg.
C10_CancelStop ==
    (/\ rr_pc # "idle"
     /\ rr_request.changes.cancel_stop # Absent
     /\ Cardinality(HoldersOf(CancelledId)) = 1) =>
       \A i \in HoldersOf(CancelledId) : CancelOutcome(CancelledId, i)

\* C10 as the code has it: the same, for a stop that is also in the stop list
\* of the request.
C10_CancelListedStop ==
    (/\ rr_pc # "idle"
     /\ rr_request.changes.cancel_stop # Absent
     /\ Cardinality(HoldersOf(CancelledId)) = 1
     /\ \E k \in 1..Len(rr_request.stops) : rr_request.stops[k].stop_id = CancelledId) =>
       \A i \in HoldersOf(CancelledId) : CancelOutcome(CancelledId, i)

\* a listed stop held by one route has been cancelled while the other truck
\* has a route of its own, and only the holder is marked
C10_Witness ==
    /\ rr_pc # "idle"
    /\ rr_request.changes.cancel_stop # Absent
    /\ Cardinality(HoldersOf(CancelledId)) = 1
    /\ \E k \in 1..Len(rr_request.stops) : rr_request.stops[k].stop_id = CancelledId
    /\ Len(rr_request.original_routes) = 2
    /\ Cardinality(cancel_effect.affected) = 1
    /\ Len(cancel_effect.log) = 2
    /\ Len(cancel_effect.stops) = Len(rr_request.stops) - 1

NewStopData == rr_request.changes.add_stop[1]

\* the trucks the change log names as the one assigned the new stop
Designated == {change_log[n].truck : n \in {m \in 1..Len(change_log) :
                                               change_log[m].kind = "assigned"}}

\* pallets on the truck's original route (none when it has no route)
OriginalLoad(truck_id) ==
    LET mine == {i \in 1..Len(rr_request.original_routes) :
                    rr_request.original_routes[i].truck_id = truck_id}
    IN  IF mine = {} THEN 0
        ELSE RouteLoad(rr_request.original_routes[CHOOSE i \in mine :
                                                      \A j \in mine : i <= j])

\* compatible with the new stop and with room left for its pallets
FitsNewStop(truck) ==
    /\ NewStopData.special_constraint \in compatibility_rules(truck.truck_type)
    /\ truck.max_pallets - OriginalLoad(truck.truck_id) >= NewStopData.pallets

\* C11: for an add_stop change, a truck is designated for the new stop only
\* if it is compatible with the stop and max_pallets minus the pallets on its
\* original route is at least the new stop's pallets; and when no truck is
\* both, all trucks are marked affected.
C11_NewStopTruck ==
    (/\ rr_pc # "idle"
     /\ rr_request.changes.add_stop # Absent
     /\ NewStopData.has_address) =>
       /\ \A i \in 1..Len(rr_request.trucks) :
             rr_request.trucks[i].truck_id \in Designated =>
                FitsNewStop(rr_request.trucks[i])
       /\ (\A i \in 1..Len(rr_request.trucks) : ~FitsNewStop(rr_request.trucks[i])) =>
             \A i \in 1..Len(rr_request.trucks) :
                rr_request.trucks[i].truck_id \in affected_trucks

\* C12: a live re-routing request with well-formed routes, stops, trucks and
\* changes completes with a routing response (HTTP 200) that carries the
\* merged routes and the impact analysis.
C12_ReroutingCompletes ==
    rr_pc = "answered" =>
       /\ rr_response.status_code = 200
       /\ rr_response.routes = final_routes

(***************************************************************************)
(* Properties of the limit checks under infrastructure errors              *)
(***************************************************************************)
\* C13: whenever a usage-limit check or a rate-limit check hits an
\* infrastructure error (the cache is unreachable or an unexpected exception
\* is raised), the check reports the request as allowed instead of
\* rejecting it.
C13_ChecksFailOpen ==
    fc_last.fault # "none" => fc_last.allowed

(***************************************************************************)
(* Properties of the API key quota                                         *)
(***************************************************************************)
ActiveCount(user_id) ==
    Cardinality({i \in 1..Len(api_keys) :
                    api_keys[i].user_id = user_id /\ api_keys[i].is_active})

InactiveCount(user_id) ==
    Cardinality({i \in 1..Len(api_keys) :
                    api_keys[i].user_id = user_id /\ ~api_keys[i].is_active})

C14_CreateStep ==
    key_last'.op = "create" =>
       /\ ActiveCount(key_last'.user) >= 10 =>
             /\ key_last'.result = "400"
             /\ api_keys' = api_keys
       /\ ActiveCount(key_last'.user) < 10 =>
             /\ key_last'.result = "created"
             /\ Len(api_keys') = Len(api_keys) + 1
             /\ api_keys'[Len(api_keys')].user_id = key_last'.user
             /\ api_keys'[Len(api_keys')].is_active

\* C14: a create for a user who already has 10 or more active API keys is
\* rejected and adds no key; inactive (revoked or cleaned-up) keys do not
\* count toward the 10, so with fewer than 10 active keys the create adds
\* one however many inactive keys the user has.
C14_ActiveKeyQuota == [][C14_CreateStep]_vars

\* a create was rejected at 10 active keys while the user owns more than 10
\* rows: an earlier create passed with 10 rows of which one was inactive
C14_Witness ==
    /\ key_last.op = "create"
    /\ key_last.result = "400"
    /\ ActiveCount(QuotaUser) = 10
    /\ InactiveCount(QuotaUser) >= 1

(***************************************************************************)
(* Properties of the usage service                                         *)
(***************************************************************************)
\* a UsageService.check_usage_limits call that met no error, for a user
\* with a subscription
ServiceChecked(last) ==
    /\ last.check = "service"
    /\ last.fault = "none"
    /\ subscription # Absent

C15_CheckStep ==
    (fc_last' # fc_last /\ ServiceChecked(fc_last')) =>
       /\ fc_last'.allowed <=>
             routes_generated < subscription[1].monthly_route_limit
       /\ subscription[1].monthly_route_limit = 10 =>
             /\ routes_generated = 9 => fc_last'.allowed
             /\ routes_generated = 10 => ~fc_last'.allowed

\* C15: checkUsageLimits of the Usage Service reports allowed=true exactly
\* when the current month's routes_generated is strictly below the
\* subscription's monthly_route_limit: with a limit of 10 it is allowed at 9
\* routes and not allowed at 10.
C15_AllowedBelowLimit == [][C15_CheckStep]_vars

\* the check answered "not allowed" at exactly 10 routes of a limit of 10
C15_Witness ==
    /\ ServiceChecked(fc_last)
    /\ subscription[1].monthly_route_limit = 10
    /\ routes_generated = 10
    /\ ~fc_last.allowed

C16_RecordStep ==
    last_log' # last_log \/ route_logs' # route_logs =>
       /\ route_logs' = route_logs + 1
       /\ last_log' # <<>>
       /\ ~last_log'[1].success =>
             /\ routes_generated' = routes_generated
             /\ api_calls_made' = api_calls_made

\* C16: each record_route_usage call adds exactly one RouteLog row whatever
\* the request's outcome, and a call with success=false leaves every
\* UsageRecord unchanged.
C16_OneLogPerCall == [][C16_RecordStep]_vars

\* a failed request was recorded after requests that had been counted
C16_Witness ==
    /\ last_log # <<>>
    /\ ~last_log[1].success
    /\ route_logs >= 2
    /\ routes_generated > 0

(***************************************************************************)
(* Properties of the sliding window                                        *)
(***************************************************************************)
\* the clock value the call of this step read is now; the calls admitted
\* before it are all older than the window
AdmittedExpired ==
    last_admitted # <<>> => last_admitted[1] <= now - WindowDuration

C17_CallStep ==
    (fresh /\ ~fresh') =>
       /\ ~rl_last'.allowed =>
             /\ now \notin rl_store'
             /\ rl_store' \subseteq rl_store
       /\ AdmittedExpired => rl_last'.allowed

\* C17: a rejected rate-limit call leaves no timestamp behind in the
\* identifier's set, so once the timestamps of the admitted calls are older
\* than the window a new call for that identifier is admitted again, however
\* many calls were rejected in between.
C17_RejectedLeaveNoTrace == [][C17_CallStep]_vars

\* a call admitted once the window had passed, after rejected calls
C17_Witness ==
    /\ last_admitted = <<now>>
    /\ rl_store = {now}
    /\ now >= WindowDuration
    /\ rejected_before >= 1

(***************************************************************************)
(* Properties of account deletion                                          *)
(***************************************************************************)
\* C18: after the account DELETE operation for a user, the user is inactive
\* and all of the user's API keys are revoked, so validate fails for every
\* secret of that user in every later state (also after an administrator
\* has set the user active again).
C18_DeletedKeysNeverValidate ==
    /\ key_last.op = "delete_account" =>
          /\ ~users[key_last.user].is_active
          /\ \A i \in 1..Len(api_keys) :
                api_keys[i].user_id = key_last.user =>
                   ~api_keys[i].is_active /\ i \in deleted_keys
    /\ \A i \in deleted_keys : ~api_keys[i].is_active
    /\ (key_last.op = "validate" /\ key_last.secret \in deleted_keys) =>
          key_last.result = None

\* a secret of a deleted account was presented after an administrator had
\* activated the user again
C18_Witness ==
    /\ key_last.op = "validate"
    /\ key_last.secret \in deleted_keys
    /\ users[api_keys[key_last.secret].user_id].is_active

(***************************************************************************)
(* Properties of the live broadcast                                        *)
(***************************************************************************)
\* the subscribers the latest ingest had, and those whose send fails
SubscribersThen == {c \in Clients : gps_last.send[c] # NotConnected}

FailingThen == {c \in SubscribersThen : gps_last.send[c] # "sent"}

\* C19: when sending a position update to one live subscriber fails, that
\* subscriber is dropped from the live set, the other subscribers still
\* receive the update, and the ingest call still completes and returns the
\* stored record.
C19_FailedSendDropsSubscriber ==
    (gps_last.result # "none" /\ Cardinality(FailingThen) = 1) =>
       /\ FailingThen \cap gps_last.clients_after = {}
       /\ SubscribersThen \ FailingThen \subseteq gps_last.delivered
       /\ gps_last.clients_after = SubscribersThen \ FailingThen
       /\ gps_last.result = "returned"

(***************************************************************************)
(* Properties of API key authentication                                    *)
(***************************************************************************)
\* C20: for a valid API key that has an IP allow-list, the request is
\* accepted only if the caller's resolved client IP (first X-Forwarded-For
\* entry, else X-Real-IP, else the raw socket address) is on the list;
\* otherwise it is rejected as Forbidden before any rate-limit check.
C20_AllowListOnResolvedIp ==
    (auth_last.valid /\ auth_last.allowed_ips # {}) =>
       IF auth_last.client_ip \in auth_last.allowed_ips
       THEN auth_last.outcome \in {"authenticated", "429"}
       ELSE auth_last.outcome = "403"

(***************************************************************************)
(* Properties of the route optimizer                                       *)
(***************************************************************************)
\* C21: the Route Optimizer always returns a full depot-closed tour: for
\* every outcome of the external API call (usable answer, error status,
\* exception, unusable body) and when no key is configured, the result is
\* present and its sequence contains every given stop exactly once.
C21_AlwaysFullTour ==
    opt_last.outcome # "none" =>
       /\ opt_last.result # <<>>
       /\ Len(opt_last.result[1].sequence) = Len(opt_last.stops)
       /\ \A i \in 1..Len(opt_last.stops) :
             \E k \in 1..Len(opt_last.result[1].sequence) :
                opt_last.result[1].sequence[k].stop_index = i

(***************************************************************************)
(* Properties of the fleet generator                                       *)
(***************************************************************************)
FleetSizeFor(stop_count) ==
    IF stop_count <= 5 THEN 2
    ELSE IF stop_count <= 12 THEN 3
    ELSE IF stop_count <= 20 THEN 4
    ELSE 5

FleetSizeAsStated ==
    /\ Len(fleet_last.trucks) = FleetSizeFor(fleet_last.stop_count)
    /\ fleet_last.stop_count = 5 => Len(fleet_last.trucks) = 2
    /\ fleet_last.stop_count = 6 => Len(fleet_last.trucks) = 3
    /\ fleet_last.stop_count = 20 => Len(fleet_last.trucks) = 4
    /\ fleet_last.stop_count = 21 => Len(fleet_last.trucks) = 5

\* C22: generate_default_fleet called without a cost target returns exactly
\* 2 trucks for 5 stops, exactly 3 for 6 stops, exactly 4 for 20 stops and
\* exactly 5 for 21 stops (thresholds at most 5, at most 12, at most 20,
\* otherwise), whatever the stops' special constraints and the other parsed
\* constraints are.
C22_FleetSizeAnyConstraints ==
    (fleet_last.stop_count >= 0 /\ fleet_last.max_total_cost = Absent) =>
       FleetSizeAsStated

(***************************************************************************)
(* Properties of the TMS connectors                                        *)
(***************************************************************************)
\* the sequence number and the address an emitted stop entry carries
EmittedNumber(platform, entry) ==
    CASE platform = "descartes"  -> entry.sequence
      [] platform = "sap_tm"     -> entry.SequenceNumber
      [] platform = "oracle_otm" -> entry.StopNum
      [] platform = "manhattan"  -> entry.stopNumber

EmittedAddress(platform, entry) ==
    CASE platform = "descartes"  -> entry.address
      [] platform = "sap_tm"     -> entry.LocationDescription
      [] platform = "oracle_otm" -> entry.LocationName
      [] platform = "manhattan"  -> entry.addressLine1

\* C23: for a route whose stops are given in the order s1..sn, every
\* connector (Descartes, SAP TM, Oracle OTM, Manhattan) emits those stops
\* with sequence numbers 1..n in exactly the input order.
C23_StopsInInputOrder ==
    sync_last.platform # "none" =>
       /\ Len(sync_last.payload) = Len(sync_last.routes)
       /\ \A r \in 1..Len(sync_last.routes) :
             /\ Len(sync_last.payload[r]) = Len(sync_last.routes[r])
             /\ \A k \in 1..Len(sync_last.routes[r]) :
                   /\ EmittedNumber(sync_last.platform, sync_last.payload[r][k]) = k
                   /\ EmittedAddress(sync_last.platform, sync_last.payload[r][k])
                         = sync_last.routes[r][k].address

\* Oracle OTM was handed two routes, the second one with three stops b, a, b
C23_Witness ==
    /\ sync_last.platform = "oracle_otm"
    /\ Len(sync_last.routes) = 2
    /\ Len(sync_last.routes[2]) = 3
    /\ sync_last.routes[2][1].address = "b"
    /\ sync_last.routes[2][2].address = "a"
    /\ EmittedNumber("oracle_otm", sync_last.payload[2][3]) = 3

(***************************************************************************)
(* Properties of the upgrade recommendation                                *)
(***************************************************************************)
\* the place of a tier in free < starter < professional < enterprise
TierRank(tier) ==
    CASE tier = "free" -> 1
      [] tier = "starter" -> 2
      [] tier = "professional" -> 3
      [] tier = "enterprise" -> 4
      [] OTHER -> 0

\* C24: upgrade-recommendation only ever recommends the tier immediately
\* above the current tier (upgrade) or immediately below it (downgrade) in
\* the fixed order free < starter < professional < enterprise, and never a
\* tier outside that list; it recommends nothing above enterprise or below
\* free.
C24_AdjacentTierOnly ==
    \A k \in 1..Len(rec_last.recommendations) :
       LET r == rec_last.recommendations[k]
       IN  /\ TierRank(r.tier) \in 1..4
           /\ r.type = "upgrade" => TierRank(r.tier) = TierRank(rec_last.tier) + 1
           /\ r.type = "downgrade" => TierRank(r.tier) = TierRank(rec_last.tier) - 1
           /\ r.type \in {"upgrade", "downgrade"}

\* a starter subscription above 80% of its limit was recommended an upgrade
C24_Witness ==
    /\ rec_last.tier = "starter"
    /\ rec_last.routes_used * 100 > 80 * rec_last.routes_limit
    /\ Len(rec_last.recommendations) = 1
    /\ rec_last.recommendations[1].type = "upgrade"

(***************************************************************************)
(* Stops are claimed once                                                  *)
(***************************************************************************)
\* C25: across all TruckRoutes returned by one route_trucks call, each
\* stop_id appears at most once: a stop claimed by one truck is never also
\* assigned to a truck processed later.
C25_StopClaimedOnce ==
    /\ \A i \in 1..Len(truck_routes) :
          Cardinality(RouteStopIds(truck_routes[i])) = Len(truck_routes[i].stops)
    /\ \A i \in 1..Len(truck_routes), j \in 1..Len(truck_routes) :
          i < j => RouteStopIds(truck_routes[i]) \cap RouteStopIds(truck_routes[j]) = {}

\* the call returned; the first truck took one of two stops both trucks can
\* carry, and the second truck took the other one
C25_Witness ==
    /\ pc = "done"
    /\ Len(truck_routes) = 2
    /\ Len(truck_routes[1].stops) = 1
    /\ Len(truck_routes[2].stops) = 1
    /\ \A k \in 1..2 :
          req.stops[k].special_constraint
             \in compatibility_rules(req.trucks[1].truck_type)
                 \cap compatibility_rules(req.trucks[2].truck_type)

(***************************************************************************)
(* Properties of concurrent rate-limit checks                              *)
(***************************************************************************)
\* the admitted calls whose clock value lies in the window ending at t
AdmittedInWindow(t) ==
    {k \in 1..Len(cr_admitted) :
        cr_admitted[k] > t - WindowDuration /\ cr_admitted[k] <= t}

\* C26: under any interleaving of concurrent check_rate_limit calls for one
\* identifier, including calls from several worker processes and calls that
\* read the same clock value, the number of calls admitted within any one
\* window never exceeds the limit.
C26_AdmittedWithinLimit ==
    \A t \in 0..MaxConcClock : Cardinality(AdmittedInWindow(t)) <= ConcLimit

(***************************************************************************)
(* Properties of concurrent key creation                                   *)
(***************************************************************************)
\* C27: under any interleaving of concurrent create requests for the same
\* user (for example from several worker processes), the user never ends up
\* with more than 10 active API keys.
C27_AtMostTenActiveKeys == ck_active <= 10

(***************************************************************************)
(* Routes counted per recorded request                                     *)
(***************************************************************************)
\* a record_route_usage call of a successful request
C28_SuccessStep ==
    /\ route_logs' = route_logs + 1
    /\ last_log' # <<>>
    /\ last_log'[1].success

\* C28: each successful record_route_usage call increases the current
\* month's routes_generated by exactly 1, so routes_generated always equals
\* the number of successful routing requests recorded for that user in that
\* month.
C28_OneRoutePerSuccess ==
    [][C28_SuccessStep => routes_generated' = routes_generated + 1]_vars

C30_ChurnDoesNotBreakBroadcast ==
    (bc_pc = "idle" /\ bc_result # "none" /\ bc_churn # {}) =>
       /\ bc_result = "returned"
       /\ (bc_start \ bc_churn) \subseteq bc_delivered

====
